---- MODULE Spec2Model ----
(***************************************************************************)
(* A model of the cmake-server protocol client (CMakeServerClient), of its *)
(* startup handshake, and of the backend (ServerClientCMakeTools) that     *)
(* sequences configure / compute / refresh over it.                        *)
(*                                                                         *)
(* Three specifications share the client's actions:                        *)
(*   Spec         the protocol client driven by arbitrary callers of its   *)
(*                request methods and by an arbitrary server that stays    *)
(*                up; cookies may collide;                                 *)
(*   SpecStart    startup and failure: the process may exit, the pipe may  *)
(*                fail or end, while the factory creates the backend;      *)
(*   SpecBackend  the factory and Backend.configure over a server that     *)
(*                stays up.                                                *)
(***************************************************************************)
EXTENDS Integers, Sequences, FiniteSets, TLC

\* ------------------------------------------------------------------ bounds

\* Requests the callers of Spec send through one client (the handshake aside).
MaxReq == 2
\* Backend.configure calls in a behaviour of SpecBackend.
MaxCalls == 1
\* The longest payload string put on the wire in SpecCodec.
MaxLen == 3
\* The most targets a code model reports.
MaxTargets == 2
\* The most restartBackend() calls of one wrapper, the constructor's included.
MaxRestarts == 3
\* The most changes of the configuration.
MaxChanges == 1
\* Calls of restartBackend next to calls of CMakeToolsWrapper.configure.
MaxProjectRestarts == 2
\* Calls of CMakeToolsWrapper.configure.
MaxConfigures == 1
\* The most lines a build prints.
MaxLines == 2
\* The most signals the server sends.
MaxSignals == 2

\* ------------------------------------------------------------------ state

VARIABLES
    client,     \* the CMakeServerClient object and the closures of start()
    proc,       \* the cmake-server child process
    sys,        \* event-loop side: the 1 s timer, the listeners, _endPromise
    factory,    \* ServerClientCMakeToolsFactory.initializeConfigured in progress
    backend,    \* the ServerClientCMakeTools object
    calls,      \* the Backend.configure calls, in the order they were made
    refreshes,  \* the _refreshAfterConfigure runs, in the order they started
    wrapper,    \* the CMakeToolsWrapper object with its Model and its backends
    build       \* a call of CMake.build with its child process

vars == <<client, proc, sys, factory, backend, calls, refreshes, wrapper, build>>

\* ---------------------------------------------------------------- messages

NoMsg == [type |-> "none", cookie |-> 0, inReplyTo |-> "", content |-> 0]

HelloMsg == [type |-> "hello", cookie |-> 0, inReplyTo |-> "", content |-> 0]

\* The message of type t the server sends about the k-th request it received:
\* it echoes the request's cookie and type, and its content is the server's
\* answer to that very request (named by k).
AnswerTo(cl, k, t) ==
    [type |-> t, cookie |-> cl.reqs[k].cookie,
     inReplyTo |-> cl.reqs[k].type, content |-> k]

\* The cookies the client has drawn so far.
UsedCookies(cl) == {cl.reqs[i].cookie : i \in 1..Len(cl.reqs)}

\* The values Math.random().toString() can return to sendRequest.  Cookies are
\* opaque, so they are numbered in the order of their first use: the value is
\* one that an earlier request already drew, or the next unused one.
RandomValues(cl) == 1..(Cardinality(UsedCookies(cl)) + 1)

\* The values of Math.random().toString() when it does not repeat itself:
\* the factory and the backend are explored with cookies that never collide
\* (collisions are explored with the callers of Spec).
FreshValues(cl) == {Cardinality(UsedCookies(cl)) + 1}

\* A ServerError that loses the cookie of the message it is built from.
ServerErrorNoCookie(e) ==
    [type |-> "error", cookie |-> 0,
     inReplyTo |-> e.inReplyTo, content |-> e.content]

\* new ServerError(e): copies errorMessage, cookie and inReplyTo of e.
ServerError(e) ==
    [type |-> "error", cookie |-> e.cookie,
     inReplyTo |-> e.inReplyTo, content |-> e.content]

\* new StartupError(retc)
StartupError(retc) ==
    [type |-> "StartupError", cookie |-> 0, inReplyTo |-> "", content |-> retc]

\* A promise: settled by the first call of resolve/reject, later calls are
\* ignored; calls counts the invocations of its resolve/reject functions.
PendingPromise == [state |-> "pending", value |-> NoMsg, calls |-> 0]

Settle(p, how, v) ==
    IF p.state = "pending"
    THEN [state |-> how, value |-> v, calls |-> p.calls + 1]
    ELSE [p EXCEPT !.calls = p.calls + 1]

\* `await p`: the awaiting function resumes normally when p is resolved and
\* with an exception when p is rejected.
awaitSwallow(p) ==
    IF p.state = "pending" THEN "pending" ELSE "resolved"

await(p) == p.state

\* Map.set and Map.delete on _promisesResolvers (cookie -> request number).
MapSet(m, k, v) == [c \in DOMAIN m \cup {k} |-> IF c = k THEN v ELSE m[c]]

MapDeleteMissing(m, k) == m

MapDelete(m, k) == [c \in DOMAIN m \ {k} |-> m[c]]

\* ------------------------------------------------------ CMakeServerClient

\* sendRequest(type, params, progress, message), with rnd the value of
\* Math.random(): registers the resolvers under the cookie, then writes the
\* frame to the pipe.  Writing to an undefined pipe throws.  The request's
\* promise is number Len(cl.reqs) + 1; removed counts the deletions of its
\* table entry; throws tells whether the observers passed throw when called
\* (set by the caller that passes such observers).
sendRequest(cl, type, progress, message, rnd) ==
    LET id == Len(cl.reqs) + 1
    IN  [cl EXCEPT
          !.resolvers = MapSet(cl.resolvers, rnd, id),
          !.promises = Append(cl.promises, PendingPromise),
          !.removed = Append(cl.removed, 0),
          !.reqs = Append(cl.reqs,
                     [type |-> type, cookie |-> rnd,
                      progress |-> progress, message |-> message,
                      throws |-> FALSE,
                      written |-> (cl.pipe = "open")]),
          !.thrown = cl.thrown \/ cl.pipe = "undefined"]

\* The closure onHello of start(), up to its await: sends the handshake.
onHello(cl, rnd) ==
    LET sent == sendRequest(cl, "handshake", FALSE, FALSE, rnd)
    IN  [sent EXCEPT !.helloAwait = cl.helloAwait \cup {Len(sent.reqs)}]

\* No observer was invoked.
NoCall == [request |-> 0, observer |-> "none", content |-> 0]

\* this._promisesResolvers.get(cookie): the request whose resolvers are
\* registered under the cookie, 0 when there is none.
getHandlerLatest(cl, cookie) ==
    IF DOMAIN cl.resolvers = {} THEN 0
    ELSE CHOOSE id \in {cl.resolvers[c] : c \in DOMAIN cl.resolvers} :
            \A c \in DOMAIN cl.resolvers : cl.resolvers[c] <= id

getHandler(cl, cookie) ==
    IF cookie \in DOMAIN cl.resolvers THEN cl.resolvers[cookie] ELSE 0

\* handler.progress(prog) or handler.message(msg) of request id: the call is
\* made, and the observer may throw.
callObserver(cl, id, kind, content) ==
    [cl EXCEPT
       !.observed = [request |-> id, observer |-> kind, content |-> content],
       !.thrown = @ \/ cl.reqs[id].throws]

\* An observer call outside any try block: its exception leaves _onMessage.
tryNoCatch(before, after) == after

\* try { ... } catch (e) { console.error(...) } around an observer call:
\* the exception, if any, is logged and goes no further.
tryCatch(before, after) == [after EXCEPT !.thrown = before.thrown]

\* The switch of _onMessage on the type of a cookied message whose handler
\* is that of request id.  cl.observed is the observer call made, if any.
dispatch(cl, some, id) ==
    CASE some.type = "reply" ->
           [cl EXCEPT
              !.resolvers = MapDelete(@, some.cookie),
              !.removed[id] = @ + 1,
              !.promises[id] = Settle(@, "resolved", some)]
      [] some.type = "error" ->
           [cl EXCEPT
              !.resolvers = MapDelete(@, some.cookie),
              !.removed[id] = @ + 1,
              !.promises[id] = Settle(@, "rejected", ServerError(some))]
      [] some.type = "progress" ->
           IF cl.reqs[id].progress
           THEN tryCatch(cl, callObserver(cl, id, "progress", some.content))
           ELSE cl
      [] some.type = "message" ->
           IF cl.reqs[id].message
           THEN tryCatch(cl, callObserver(cl, id, "message", some.content))
           ELSE cl
      [] OTHER -> cl

\* The cookied part of _onMessage without its `if (!handler)` test: the
\* switch reads handler.resolve of an undefined handler and throws.
onCookiedUnchecked(cl, some) ==
    IF getHandler(cl, some.cookie) = 0
    THEN [cl EXCEPT !.thrown = TRUE]
    ELSE dispatch(cl, some, getHandler(cl, some.cookie))

\* The cookied part of _onMessage: a message whose cookie has no handler is
\* logged (cl.invalidCookie, 0 when the last dispatch logged none) and dropped, any other is dispatched.
onCookied(cl, some) ==
    IF getHandler(cl, some.cookie) = 0
    THEN [cl EXCEPT !.invalidCookie = some.cookie]
    ELSE dispatch(cl, some, getHandler(cl, some.cookie))

\* _onMessage(some), with rnd the value Math.random() returns should the
\* dispatch send a request.
onMessage(cl, some, rnd) ==
    LET c == [cl EXCEPT !.observed = NoCall, !.invalidCookie = 0]
    IN  IF some.type = "hello" THEN onHello(c, rnd)
        ELSE IF some.type = "signal" /\ some.inReplyTo \in {"dirty", "fileChange"}
        THEN c
        ELSE IF some.cookie # 0 THEN onCookied(c, some)
        ELSE c

\* onHello without its catch clause's reject: start() resolves whatever the
\* handshake's outcome.
onHelloResumeAlways(cl, r) ==
    [cl EXCEPT
       !.helloAwait = @ \ {r},
       !.resolved = TRUE,
       !.start = Settle(@, "resolved", NoMsg)]

\* The continuation of onHello after `await client.sendRequest('handshake')`
\* for handshake request r: resolved = true, then resolve(client) or reject(e).
\* An onHello whose catch clause shuts the client down before it rejects.
onHelloResumeShutdown(cl, r) ==
    [cl EXCEPT
       !.helloAwait = @ \ {r},
       !.resolved = TRUE,
       !.pipe = IF await(cl.promises[r]) = "resolved" \/ @ # "open"
                THEN @ ELSE "ended",
       !.start = IF await(cl.promises[r]) = "resolved"
                 THEN Settle(@, "resolved", NoMsg)
                 ELSE Settle(@, "rejected", cl.promises[r].value)]

onHelloResume(cl, r) ==
    [cl EXCEPT
       !.helloAwait = @ \ {r},
       !.resolved = TRUE,
       !.start = IF await(cl.promises[r]) = "resolved"
                 THEN Settle(@, "resolved", NoMsg)
                 ELSE Settle(@, "rejected", cl.promises[r].value)]

\* A crash callback that also rejects every request still in the table and
\* empties the table.
onCrashRejectPending(cl, retc) ==
    [cl EXCEPT
       !.start = IF cl.resolved THEN @ ELSE Settle(@, "rejected", StartupError(retc)),
       !.promises = [r \in DOMAIN cl.promises |->
                        IF cl.reqs[r].cookie \in DOMAIN cl.resolvers
                        THEN Settle(cl.promises[r], "rejected", StartupError(retc))
                        ELSE cl.promises[r]],
       !.resolvers = [c \in {} |-> 0]]

\* The closure onCrash of start().
onCrash(cl, retc) ==
    IF ~cl.resolved
    THEN [cl EXCEPT !.start = Settle(@, "rejected", StartupError(retc))]
    ELSE cl

\* A 'close' listener that reports every exit as a crash.
onCloseAlways(cl, retc) == onCrash(cl, retc)

\* The child's 'close' listener, registered by the timer callback.
onClose(cl, retc) ==
    IF retc # 0 THEN onCrash(cl, retc) ELSE cl

\* shutdown(), up to its await: this._pipe.end().
shutdown(cl) ==
    [cl EXCEPT !.pipe = IF @ = "open" THEN "ended" ELSE @,
               !.thrown = @ \/ cl.pipe = "undefined"]

\* ---------------------------------------------------------------- framing
\* Text is a sequence of pieces.  "[" and "]" are the brackets, "M" is the
\* run == "CMake Server" == of the markers, "m" is that run as it stands
\* inside a JSON string (quotes escaped), "n" is a newline, "e" is a newline
\* as it stands inside a JSON string (backslash n), "{" and "}" open and
\* close the serialized object around its string.

\* The opening marker written by sendRequest and matched by MESSAGE_WRAPPER_RE.
StartMarker == <<"[", "M", "[">>

\* The closing marker.
EndMarker == <<"]", "M", "]">>

\* The pieces a payload string is made of.
RawChars == {"[", "]", "M", "n"}

\* The pieces allowed inside a serialized string.
EscapedChars == {"[", "]", "m", "e"}

\* \s of the regular expression.
IsWhite(c) == c = "n"

\* JSON.stringify that leaves quotes and newlines as they are.
JSONstringifyRaw(P) == <<"{">> \o P \o <<"}">>

\* JSON.stringify(cp): quotes and newlines of the string are escaped.
JSONstringify(P) ==
    <<"{">>
    \o [i \in 1..Len(P) |->
          CASE P[i] = "M" -> "m" [] P[i] = "n" -> "e" [] OTHER -> P[i]]
    \o <<"}">>

\* Leading and trailing whitespace, which JSON.parse skips.
RECURSIVE trim(_)
trim(s) ==
    IF s = <<>> THEN s
    ELSE IF IsWhite(Head(s)) THEN trim(Tail(s))
    ELSE IF IsWhite(s[Len(s)]) THEN trim(SubSeq(s, 1, Len(s) - 1))
    ELSE s

\* JSON.parse(content): the payload of a well-formed object, or a
\* SyntaxError (ok = FALSE).
JSONparse(content) ==
    LET t == trim(content)
        wellFormed ==
            /\ Len(t) >= 2
            /\ t[1] = "{"
            /\ t[Len(t)] = "}"
            /\ \A i \in 2..(Len(t) - 1) : t[i] \in EscapedChars
    IN  IF wellFormed
        THEN [ok |-> TRUE,
              value |-> [i \in 1..(Len(t) - 2) |->
                           CASE t[i + 1] = "m" -> "M"
                             [] t[i + 1] = "e" -> "n"
                             [] OTHER -> t[i + 1]]]
        ELSE [ok |-> FALSE, value |-> <<>>]

\* The three writes of sendRequest around the serialized message.
frame(msg) ==
    <<"n">> \o StartMarker \o <<"n">> \o msg \o <<"n">> \o EndMarker \o <<"n">>

\* What sendRequest writes to the pipe for payload P.
encode(P) == frame(JSONstringify(P))

\* m stands in s at position i.
HasAt(s, i, m) ==
    /\ i + Len(m) - 1 <= Len(s)
    /\ SubSeq(s, i, i + Len(m) - 1) = m

\* The first position from `from` on at which m stands in s, 0 if none.
FirstAt(s, from, m) ==
    LET at == {i \in from..Len(s) : HasAt(s, i, m)}
    IN  IF at = {} THEN 0 ELSE CHOOSE i \in at : \A j \in at : i <= j

\* The last position from `from` on at which m stands in s, 0 if none.
LastAt(s, from, m) ==
    LET at == {i \in from..Len(s) : HasAt(s, i, m)}
    IN  IF at = {} THEN 0 ELSE CHOOSE i \in at : \A j \in at : i >= j

\* The first position from i on that holds no whitespace.
SkipWhite(s, i) ==
    LET at == {j \in i..(Len(s) + 1) : j = Len(s) + 1 \/ ~IsWhite(s[j])}
    IN  CHOOSE j \in at : \A k \in at : j <= k

\* The result of exec for the markers found at positions i and j.
Match(input, i, j) ==
    IF i = 0 \/ j = 0
    THEN [matched |-> FALSE, content |-> <<>>, tail |-> <<>>]
    ELSE [matched |-> TRUE,
          content |-> SubSeq(input, i + Len(StartMarker), j - 1),
          tail |-> SubSeq(input, SkipWhite(input, j + Len(EndMarker)),
                          Len(input))]

\* The regular expression with a greedy content group: the content runs to
\* the last closing marker.
MESSAGE_WRAPPER_RE_Greedy(input) ==
    LET i == FirstAt(input, 1, StartMarker)
    IN  Match(input, i,
              IF i = 0 THEN 0
              ELSE LastAt(input, i + Len(StartMarker), EndMarker))

\* MESSAGE_WRAPPER_RE.exec(input): the first opening marker, the shortest
\* content up to a closing marker, the whitespace after it skipped, and the
\* rest as tail.
MESSAGE_WRAPPER_RE(input) ==
    LET i == FirstAt(input, 1, StartMarker)
    IN  Match(input, i,
              IF i = 0 THEN 0
              ELSE FirstAt(input, i + Len(StartMarker), EndMarker))

\* A decoder that throws away the input it cannot match yet.
noMatchDrop(cl) == [cl EXCEPT !.accInput = <<>>]

\* `if (!mat) break;`: the input stays in _accInput until more arrives.
noMatch(cl) == cl

\* this._onMessage(message) for a decoded message with payload P: the
\* cookie of a message read off the wire here is registered nowhere.
deliver(cl, P) ==
    [onMessage(cl, [type |-> "message", cookie |-> 1,
                    inReplyTo |-> "", content |-> 0], 1)
       EXCEPT !.dispatched = Append(cl.dispatched,
                                    [kind |-> "message", payload |-> P])]

\* An exception leaves _onMoreData: the loop is abandoned.
throw(cl, kind) ==
    [cl EXCEPT !.thrown = TRUE,
               !.dispatched = Append(@, [kind |-> kind, payload |-> <<>>])]

\* The loop of _onMoreData over this._accInput.
RECURSIVE decodeLoop(_)
decodeLoop(cl) ==
    LET mat == MESSAGE_WRAPPER_RE(cl.accInput)
    IN  IF ~mat.matched THEN noMatch(cl)
        ELSE IF mat.content = <<>> THEN throw(cl, "ProtocolError")
        ELSE LET taken == [cl EXCEPT !.accInput = mat.tail]
                 message == JSONparse(mat.content)
             IN  IF ~message.ok THEN throw(taken, "SyntaxError")
                 ELSE decodeLoop(deliver(taken, message.value))

\* _onMoreData(data)
onMoreData(cl, data) ==
    decodeLoop([cl EXCEPT !.accInput = @ \o data])

\* ------------------------------------------------- ServerClientCMakeTools

\* _refreshAfterConfigure(), up to the awaits: _refreshCacheEntries() sends
\* the cache request, then _refreshCodeModel() sends the codemodel request.
\* rnd1 and rnd2 are the two values of Math.random().
refreshRequests(cl, rnd1, rnd2) ==
    sendRequest(sendRequest(cl, "cache", FALSE, FALSE, rnd1),
                "codemodel", FALSE, FALSE, rnd2)

\* The record of a refresh whose requests are the last two of cl.
NewRefresh(cl) ==
    [cache |-> Len(cl.reqs) - 1, codemodel |-> Len(cl.reqs),
     cacheDone |-> "pending", codemodelDone |-> "pending",
     first |-> "none"]

\* Promise.race in place of Promise.all: settled by the first refresh.
RefreshOutcomeRace(rf) ==
    IF rf.cacheDone = "failed" \/ rf.codemodelDone = "failed" THEN "rejected"
    ELSE IF rf.cacheDone = "installed" \/ rf.codemodelDone = "installed"
    THEN "resolved"
    ELSE "pending"

\* The outcome of Promise.all over the two refreshes.
RefreshOutcome(rf) ==
    IF rf.cacheDone = "failed" \/ rf.codemodelDone = "failed" THEN "rejected"
    ELSE IF rf.cacheDone = "installed" /\ rf.codemodelDone = "installed"
    THEN "resolved"
    ELSE "pending"

\* CMake.getAllTargetName(generator): ALL_BUILD for a name that contains
\* "Visual Studio" or, in any case of letters, "xcode"; all otherwise.
getAllTargetName(generator) ==
    IF generator \in {"Visual Studio 15 2017", "Xcode"}
    THEN "ALL_BUILD"
    ELSE "all"

\* path.normalize(p) on the artifact paths of the model: a "." segment is
\* removed, every other path is already normal.
normalize(p) ==
    IF p = "out/./a" THEN "out/a" ELSE p

\* A filter that also asks for a first artifact.
keptNonEmpty(t) ==
    t.buildDirectory /\ t.artifacts.present /\ t.artifacts.paths # <<>>

\* `t => !!t.buildDirectory && !!t.artifacts` of the getter `targets`: a
\* target passes with a build directory and an artifacts property, and an
\* empty array is a property like any other.
kept(t) ==
    t.buildDirectory /\ t.artifacts.present

\* The getter `targets` of backend b: no entry at all without a code model;
\* with one, the synthetic entry named after this.generator.name comes
\* first, and reading the name of an unassigned generator throws.  Each
\* target of the first configuration that passes the filter follows with
\* its first artifact normalized; path.normalize throws on the undefined
\* first element of an empty array.
targets(b) ==
    IF b.codeModel = 0
    THEN [thrown |-> FALSE, list |-> <<>>]
    ELSE IF b.generator = "undefined"
    THEN [thrown |-> TRUE, list |-> <<>>]
    ELSE LET ts == SelectSeq(b.projects, kept)
         IN  IF \E i \in 1..Len(ts) : ts[i].artifacts.paths = <<>>
             THEN [thrown |-> TRUE, list |-> <<>>]
             ELSE [thrown |-> FALSE,
                   list |-> <<[type |-> "rich",
                               name |-> getAllTargetName(b.generator),
                               filepath |-> "A special target",
                               targetType |-> "META"]>>
                            \o [i \in 1..Len(ts) |->
                                 [type |-> "rich",
                                  name |-> ts[i].name,
                                  filepath |-> normalize(ts[i].artifacts.paths[1]),
                                  targetType |-> ts[i].type]]]

\* tmpcache.get('CMAKE_HOME_DIRECTORY') on the cache read from the binary
\* directory: 0 when the file or the entry is missing.
CMakeCacheGet(cache) ==
    IF cache.exists THEN cache.home ELSE 0

\* A test of the source directory that lets everything pass.
notConfiguredNever(sourceDir) == FALSE

\* `if (!sourceDir)` of initializeConfigured.
notConfigured(sourceDir) == sourceDir = 0

\* A catch clause that throws every error again.
configureCatchRethrow(e) == "raised"

\* The `cache` list of the cache reply with content k: an entry every reply
\* holds (key 0) and one that only this reply holds (key k), with the values
\* of this reply.
cacheOf(content) ==
    <<[key |-> 0, value |-> content], [key |-> content, value |-> content]>>

\* `new Map<string, cache.Entry>()`.
NewMap == [c \in {} |-> 0]

\* clcache.cache.reduce((acc, el) => { acc.set(el.key, ...); return acc },
\* acc).
RECURSIVE reduceCache(_, _)
reduceCache(cache, acc) ==
    IF cache = <<>>
    THEN acc
    ELSE reduceCache(Tail(cache), MapSet(acc, Head(cache).key, Head(cache).value))

\* A refresh that sets the entries of the reply in the installed map.
refreshCacheEntriesInPlace(b, clcache) ==
    [b EXCEPT !.cacheEntries = reduceCache(clcache.cache, b.cacheEntries)]

\* _refreshCacheEntries after its await: the entries of the reply are
\* collected in a new map, which then replaces this._cacheEntries.
\* A refresh that installs the cache entries as part of a whole snapshot:
\* the code model of an earlier refresh is dropped with them.
refreshCacheEntriesSnapshot(b, clcache) ==
    [b EXCEPT !.cacheEntries = reduceCache(clcache.cache, NewMap),
              !.codeModel = 0]

refreshCacheEntries(b, clcache) ==
    [b EXCEPT !.cacheEntries = reduceCache(clcache.cache, NewMap)]

\* The request whose rejection has rejected refresh rf.
RejectedRefresh(rf) ==
    IF rf.first = "cache" THEN rf.cache ELSE rf.codemodel

\* The TypeError of reading a property of undefined.
TypeError ==
    [type |-> "TypeError", cookie |-> 0, inReplyTo |-> "", content |-> 0]

\* The error Promise.all rejects with: the error of the request that failed
\* first, or the TypeError thrown while its reply was installed.
refreshError(cl, rf) ==
    IF cl.promises[RejectedRefresh(rf)].state = "rejected"
    THEN cl.promises[RejectedRefresh(rf)].value
    ELSE TypeError

\* The catch clause around the refresh of create(): a ServerError is
\* ignored, anything else is thrown on.
createCatch(e) ==
    IF e.type = "error" THEN "ignored" ELSE "raised"

\* A shutdown() that returns without awaiting _endPromise.
endPromiseNotAwaited(sy) == "resolved"

\* _endPromise: Promise.all of the pipe's 'end' and the child's 'exit'.
endPromise(sy) ==
    IF sy.endResolved /\ sy.exitResolved THEN "resolved" ELSE "pending"

\* A refresh awaited inside the try block of configure().
refreshRejectedCaught(e) ==
    IF e.type = "error" THEN "false" ELSE "raised"

\* `await this._refreshAfterConfigure()` of configure() stands after the
\* try block: its rejection leaves configure() whatever the error is.
refreshRejected(e) == "raised"

\* The catch clause of configure(): a ServerError gives false, anything else
\* is thrown again.
configureCatch(e) ==
    IF e.type = "error" THEN "false" ELSE "raised"

\* ----------------------------------------------------- CMakeToolsWrapper
\* A backend promise is pending, resolved with a backend (an index into
\* wrapper.backends) or rejected with an error.

\* createUnconfiguredBackend(): a promise rejected with a new
\* UnconfiguredProjectError.
createUnconfiguredBackend ==
    [state |-> "rejected", error |-> "UnconfiguredProjectError", backend |-> 0]

PendingBackend ==
    [state |-> "pending", error |-> "", backend |-> 0]

\* The settings the configuration listener compares with its copies, and
\* buildDirectory, which getActiveBinaryDir() reads.
Settings ==
    {"useCMakeServer", "preferredGenerators", "generator", "cmakePath",
     "configureEnvironment"}

Directories == {1, 2}

\* getActiveBinaryDir(): the configured build directory.
getActiveBinaryDir(config) == config["buildDirectory"]

\* restartBackend(): chains `.then(dispose and start).catch(start)` on the
\* current backend promise and makes the result the current one.
restartBackend(w) ==
    [w EXCEPT !.promises = Append(@, PendingBackend),
              !.backend = Len(w.promises) + 1,
              !.tasks = Append(@, [pc |-> "chained", via |-> "then",
                                   prev |-> w.backend,
                                   result |-> Len(w.promises) + 1,
                                   dir |-> 0, created |-> 0, starts |-> 0])]

\* The listener of model.onDidBuildDirectoryChange: restartBackend() when
\* the previous directory differs from the present one.
onDidBuildDirectoryChange(w, previousDir) ==
    IF previousDir # w.buildDirectory THEN restartBackend(w) ELSE w

\* `model.buildDirectory = path`: stores the path and fires the event with
\* the previous one, whether or not they differ.
setBuildDirectory(w, path) ==
    onDidBuildDirectoryChange([w EXCEPT !.buildDirectory = path],
                              w.buildDirectory)

\* The listener of onDidChangeConfiguration with the new configuration:
\* do_reload compares the five settings with their copies, the copies are
\* refreshed, and a reload assigns getActiveBinaryDir() to
\* model.buildDirectory.
onDidChangeConfiguration(w, config) ==
    LET do_reload == \E s \in Settings : config[s] # w.config[s]
        w1 == [w EXCEPT !.config = config, !.changes = @ + 1]
    IN  IF do_reload
        THEN setBuildDirectory(w1, getActiveBinaryDir(config))
        ELSE w1

\* startBackend() up to `await validateBinaryDir(this.model.buildDirectory)`,
\* called by restart i from its then callback or its catch callback.
startBackend(w, i, via) ==
    [w EXCEPT !.tasks[i].pc = "validate",
              !.tasks[i].via = via,
              !.tasks[i].dir = w.buildDirectory,
              !.tasks[i].starts = @ + 1]

\* The startBackend() of restart i has rejected with error: a rejection in
\* the then callback goes to the catch callback, which starts again; a
\* rejection in the catch callback rejects the backend promise.
\* A restartBackend without the trailing catch: a rejection of the
\* startBackend() in the then callback rejects the backend promise.
startRejectedOnce(w, i, error) ==
    [w EXCEPT !.tasks[i].pc = "done",
              !.promises[w.tasks[i].result] =
                  [state |-> "rejected", error |-> error, backend |-> 0]]

startRejected(w, i, error) ==
    IF w.tasks[i].via = "then"
    THEN startBackend(w, i, "catch")
    ELSE [w EXCEPT !.tasks[i].pc = "done",
                   !.promises[w.tasks[i].result] =
                       [state |-> "rejected", error |-> error, backend |-> 0]]

\* A then callback of restartBackend that does not await dispose().
thenDisposeNoAwait(w, i) ==
    startBackend([w EXCEPT !.backends[w.promises[w.tasks[i].prev].backend].state =
                               "disposing"],
                 i, "then")

\* The then callback of restartBackend up to `await backend.dispose()`.
thenDispose(w, i) ==
    [w EXCEPT !.tasks[i].pc = "dispose",
              !.backends[w.promises[w.tasks[i].prev].backend].state = "disposing"]

\* CMakeToolsWrapper.configure() up to `await this.backend`.
wrapperConfigure(w) ==
    [w EXCEPT !.configs = Append(@, [pc |-> "backend", awaits |-> w.backend,
                                     via |-> "backend", promise |-> 0,
                                     dir |-> 0, created |-> 0,
                                     result |-> "none"])]

\* The catch clause of configureNewProject of call c: the promise of
\* startBackendForNewProject is rejected with error, this._backend becomes
\* createUnconfiguredBackend() and the result is false.
configureNewCatch(w, c, error) ==
    [w EXCEPT !.promises = Append([@ EXCEPT ![w.configs[c].promise] =
                                      [state |-> "rejected", error |-> error,
                                       backend |-> 0]],
                                  createUnconfiguredBackend),
              !.backend = Len(w.promises) + 1,
              !.configs[c].pc = "done",
              !.configs[c].result = "1"]

\* A configureNewProject that sets the state of the model once its backend
\* is there.
configureNewResolvedReady(w, c, b) ==
    [w EXCEPT !.promises[w.configs[c].promise] =
                  [state |-> "resolved", error |-> "", backend |-> b],
              !.state = "Ready",
              !.configs[c].pc = "configure",
              !.configs[c].created = b]

\* configureNewProject of call c resumes with the backend b of
\* startBackendForNewProject and calls backend.configure().
configureNewResolved(w, c, b) ==
    [w EXCEPT !.promises[w.configs[c].promise] =
                  [state |-> "resolved", error |-> "", backend |-> b],
              !.configs[c].pc = "configure",
              !.configs[c].created = b]

\* configureNewProject() of call c up to `await this._backend`:
\* startBackendForNewProject() runs up to the file check of its
\* validateBinaryDir, which throws at once without a directory, and its
\* promise becomes this._backend.
configureNewProject(w, c) ==
    LET w1 == [w EXCEPT !.promises = Append(@, PendingBackend),
                        !.backend = Len(w.promises) + 1,
                        !.configs[c].via = "new",
                        !.configs[c].promise = Len(w.promises) + 1,
                        !.configs[c].dir = w.buildDirectory,
                        !.configs[c].pc = "validate"]
    IN  IF w.buildDirectory = 0
        THEN configureNewCatch(w1, c, "Error")
        ELSE w1

\* The wrapper before its constructor assigns model.buildDirectory.
NewWrapper(config, caches) ==
    [buildDirectory |-> 0, state |-> "undefined",
     config |-> config, changes |-> 0,
     caches |-> caches,
     backend |-> 1, promises |-> <<createUnconfiguredBackend>>,
     tasks |-> <<>>, backends |-> <<>>, configs |-> <<>>]

DefaultConfig ==
    [s \in Settings \cup {"buildDirectory"} |-> 1]

\* ------------------------------------------------------------ CMake.build

\* A result that takes every exit code for success.
buildResultAlways(retc) == TRUE

\* `return result === 0` of CMake.build; the code of a killed child is null,
\* written -1.
buildResult(retc) == retc = 0

\* `Math.floor(parseInt(res[1]) / 100)` of the 'line' listener.
procent(percent) == percent \div 100

\* The 'line' listener of the child's stdout: a line that shows a
\* percentage (percent >= 0) is reported with onProgress, every line with
\* onMessage.
onLine(b, percent) ==
    [b EXCEPT !.progress = IF percent >= 0 THEN Append(@, procent(percent)) ELSE @,
              !.messages = @ + 1]

\* execute2 with a cancellation token: when the token is cancelled the
\* spawned process is killed, and onComplete resolves with its exit code.
execute2Cancel(b) ==
    IF b.child = "running"
    THEN [b EXCEPT !.child = "killed", !.retc = -1, !.cancelledRunning = TRUE]
    ELSE b

\* No build was started.
NoBuild ==
    [pc |-> "idle", handler |-> FALSE, token |-> FALSE, cancelled |-> FALSE,
     cancelledRunning |-> FALSE,
     child |-> "none", retc |-> 0, lines |-> 0,
     progress |-> <<>>, messages |-> 0, result |-> FALSE]

\* ------------------------------------------------------------------- Init

\* The fields of a CMakeServerClient that start() has just constructed for
\* source directory sourceDir, with the closure variables of start().
NewClient(sourceDir) ==
    [pipe |-> "undefined",
     resolvers |-> [c \in {} |-> 0],
     reqs |-> <<>>, promises |-> <<>>, observed |-> NoCall,
     removed |-> <<>>,
     invalidCookie |-> 0,
     thrown |-> FALSE,
     resolved |-> FALSE,
     start |-> PendingPromise,
     helloAwait |-> {},
     accInput |-> <<>>,
     dispatched |-> <<>>,
     sourceDir |-> sourceDir]

\* The server process: "none" while none was spawned.
NewProc(state) ==
    [state |-> state, retc |-> 0, helloSent |-> FALSE,
     sent |-> <<>>, out |-> <<>>, reads |-> 0]

\* The onDirty callback the factory passes to start(): its body is a
\* comment, so it leaves the backend as it is.
onDirty(b) == b

\* The signal named name, which bears no request's cookie.
SignalMsg(name) ==
    [type |-> "signal", cookie |-> 0, inReplyTo |-> name, content |-> 0]

\* The fields of a ServerClientCMakeTools after its constructor; nothing
\* assigns generator and _dirty starts true.  signals lists the names of the
\* signals the server has sent so far.  projects holds the targets of
\* codeModel.configurations[0], project after project.
NewBackend ==
    [globalSettings |-> 0, codeModel |-> 0, cacheEntries |-> NewMap,
     projects |-> <<>>,
     generator |-> "undefined",
     dirty |-> TRUE, signals |-> <<>>]

\* The state start() leaves once `new CMakeServerClient(...)` has returned:
\* the process is spawned, the timer is armed, nothing is connected, and
\* initializeConfigured awaits start().
Init ==
    /\ client = NewClient(1)
    /\ proc = NewProc("running")
    /\ sys = [timerFired |-> FALSE, endResolved |-> FALSE, exitResolved |-> FALSE,
              cache |-> [exists |-> TRUE, home |-> 1]]
    /\ factory = [pc |-> "start", globalSettings |-> 0, refresh |-> 0,
                  entry |-> "configured", error |-> NoMsg]
    /\ backend = NewBackend
    /\ calls = <<>>
    /\ refreshes = <<>>
    /\ wrapper = NewWrapper(DefaultConfig, {})
    /\ build = NoBuild

backendVars == <<factory, backend, calls, refreshes, wrapper, build>>

\* ------------------------------------------------- actions of the client

\* The setTimeout callback of the constructor: connects the pipe and only
\* now registers the child's 'exit' and 'close' listeners.
TimerFire ==
    /\ proc.state # "none"
    /\ ~sys.timerFired
    /\ sys' = [sys EXCEPT !.timerFired = TRUE]
    /\ client' = [client EXCEPT !.pipe = "open"]
    /\ UNCHANGED <<proc, backendVars>>

\* The child process exits with code retc.  Its 'exit' and 'close' events
\* reach only listeners that are already registered.
ProcExit ==
    \E retc \in {0, 1} :
        /\ proc.state = "running"
        /\ proc' = [proc EXCEPT !.state = "exited", !.retc = retc]
        /\ IF sys.timerFired
           THEN /\ sys' = [sys EXCEPT !.exitResolved = TRUE]
                /\ client' = onClose(client, retc)
           ELSE UNCHANGED <<sys, client>>
        /\ UNCHANGED backendVars

\* The pipe's 'error' listener: pipe.end().  The socket is destroyed by the
\* error, so no 'data' and no 'end' event follows.
PipeError ==
    /\ client.pipe \in {"open", "ended"}
    /\ ~sys.endResolved
    /\ client' = [client EXCEPT !.pipe = "destroyed"]
    /\ UNCHANGED <<proc, sys, backendVars>>

\* The pipe's 'end' listener (the server closed its side): pipe.end() and
\* resolve the end promise.
PipeEnd ==
    /\ client.pipe \in {"open", "ended"}
    /\ ~sys.endResolved
    /\ client' = [client EXCEPT !.pipe = "ended"]
    /\ sys' = [sys EXCEPT !.endResolved = TRUE]
    /\ UNCHANGED <<proc, backendVars>>

\* Data can arrive on the pipe, and the server is there to send it.
Readable ==
    /\ client.pipe \in {"open", "ended"}
    /\ ~sys.endResolved
    /\ proc.state = "running"

\* The server sends `hello`, once per connection; _onMoreData dispatches it
\* to _onMessage.
ServerHello ==
    \E rnd \in RandomValues(client) :
        /\ Readable
        /\ ~proc.helloSent
        /\ proc' = [proc EXCEPT !.helloSent = TRUE]
        /\ client' = onMessage(client, HelloMsg, rnd)
        /\ UNCHANGED <<sys, backendVars>>

\* The server sends a message of type t about a request it has received
\* and not yet answered for good; _onMoreData dispatches it.
ServerAnswer ==
    \E k \in 1..Len(client.reqs), t \in {"reply", "error", "progress", "message"} :
        /\ Readable
        /\ client.reqs[k].written
        /\ client.removed[k] = 0
        /\ client' = onMessage(client, AnswerTo(client, k, t), 1)
        /\ UNCHANGED <<proc, sys, backendVars>>

\* The server sends one more message about a request that was settled
\* before (a duplicate or late answer); _onMoreData dispatches it.
ServerRepeat ==
    \E k \in 1..Len(client.reqs), t \in {"reply", "error", "progress", "message"} :
        /\ Readable
        /\ client.reqs[k].written
        /\ client.removed[k] > 0
        /\ client' = onMessage(client, AnswerTo(client, k, t), 1)
        /\ UNCHANGED <<proc, sys, backendVars>>

\* A cookied message whose cookie no request of the client has ever borne.
StrayMsg(cl, t) ==
    [type |-> t, cookie |-> Cardinality(UsedCookies(cl)) + 1,
     inReplyTo |-> "cache", content |-> 0]

\* The server sends a cookied message with a cookie the client never drew.
ServerStray ==
    \E t \in {"reply", "error", "progress", "message"} :
        /\ Readable
        /\ client' = onMessage(client, StrayMsg(client, t), 1)
        /\ UNCHANGED <<proc, sys, backendVars>>

\* The microtask that resumes onHello once its handshake request is settled.
HelloResume ==
    \E r \in client.helloAwait :
        /\ await(client.promises[r]) # "pending"
        /\ client' = onHelloResume(client, r)
        /\ UNCHANGED <<proc, sys, backendVars>>

\* The requests the callers of Spec have sent.
CallerRequests(cl) == {i \in 1..Len(cl.reqs) : cl.reqs[i].type # "handshake"}

\* A caller that was handed the client by start() calls
\* configure(params, progress?, message?).
ClientConfigure ==
    \E progress \in BOOLEAN, message \in BOOLEAN, rnd \in RandomValues(client) :
        /\ client.start.state = "resolved"
        /\ Cardinality(CallerRequests(client)) < MaxReq
        /\ client' = sendRequest(client, "configure", progress, message, rnd)
        /\ UNCHANGED <<proc, sys, backendVars>>

\* A caller that was handed the client by start() calls getCMakeCacheContent().
ClientGetCache ==
    \E rnd \in RandomValues(client) :
        /\ client.start.state = "resolved"
        /\ Cardinality(CallerRequests(client)) < MaxReq
        /\ client' = sendRequest(client, "cache", FALSE, FALSE, rnd)
        /\ UNCHANGED <<proc, sys, backendVars>>

\* A caller sends configure with observers of which it is known whether
\* they throw.
ClientObserve ==
    \E progress \in BOOLEAN, message \in BOOLEAN, throws \in BOOLEAN,
       rnd \in FreshValues(client) :
        /\ client.start.state = "resolved"
        /\ Cardinality(CallerRequests(client)) < MaxReq
        /\ client' = [sendRequest(client, "configure", progress, message, rnd)
                        EXCEPT !.reqs[Len(client.reqs) + 1].throws = throws]
        /\ UNCHANGED <<proc, sys, backendVars>>

\* ---------------------------------------- actions of factory and backend

\* The source directories a project may have.
SourceDirs == {1, 2}

\* The states of the binary directory: no CMakeCache.txt, one without
\* CMAKE_HOME_DIRECTORY, one that records a source directory.
Caches ==
    {[exists |-> FALSE, home |-> 0]}
    \cup {[exists |-> TRUE, home |-> h] : h \in {0} \cup SourceDirs}

\* CMakeServerClient.start(params) up to the return of the constructor: the
\* process is spawned and the caller awaits the promise of start().
start(sourceDir, entry) ==
    /\ client' = NewClient(sourceDir)
    /\ proc' = NewProc("running")
    /\ factory' = [factory EXCEPT !.pc = "start", !.entry = entry]

\* initializeConfigured(binaryDir): reads the cache, throws if it records no
\* source directory, else starts the client with the recorded one.
InitializeConfigured ==
    /\ factory.pc = "idle"
    /\ IF notConfigured(CMakeCacheGet(sys.cache))
       THEN /\ factory' = [factory EXCEPT !.pc = "failed",
                                          !.entry = "configured"]
            /\ UNCHANGED <<client, proc>>
       ELSE start(CMakeCacheGet(sys.cache), "configured")
    /\ UNCHANGED <<sys, backend, calls, refreshes, wrapper, build>>

\* initializeNew(params): starts the client with params.sourceDir.
InitializeNew ==
    \E sourceDir \in SourceDirs :
        /\ factory.pc = "idle"
        /\ start(sourceDir, "new")
        /\ UNCHANGED <<sys, backend, calls, refreshes, wrapper, build>>

\* initializeConfigured resumes after `await CMakeServerClient.start(...)`.
\* When start() resolved, createBackend calls ServerClientCMakeTools.create,
\* which runs up to `await client.getGlobalSettings()`; when it rejected,
\* initializeConfigured rejects.
FactoryStartResume ==
    \E rnd \in FreshValues(client) :
        /\ factory.pc = "start"
        /\ await(client.start) # "pending"
        /\ IF await(client.start) = "resolved"
           THEN /\ client' = sendRequest(client, "globalSettings", FALSE, FALSE, rnd)
                /\ factory' = [factory EXCEPT !.pc = "globalSettings",
                                              !.globalSettings = Len(client'.reqs)]
           ELSE /\ factory' = [factory EXCEPT !.pc = "failed"]
                /\ UNCHANGED client
        /\ UNCHANGED <<proc, sys, backend, calls, refreshes, wrapper, build>>

\* create() resumes after `await client.getGlobalSettings()`: it stores the
\* settings and starts _refreshAfterConfigure(); when the request was
\* rejected, the catch clause of createBackend calls client.shutdown().
CreateResume ==
    \E rnd1 \in FreshValues(client) :
      \E rnd2 \in FreshValues(sendRequest(client, "cache", FALSE, FALSE, rnd1)) :
        /\ factory.pc = "globalSettings"
        /\ await(client.promises[factory.globalSettings]) # "pending"
        /\ IF await(client.promises[factory.globalSettings]) = "resolved"
           THEN /\ backend' = [backend EXCEPT !.globalSettings =
                                 client.promises[factory.globalSettings].value.content]
                /\ client' = refreshRequests(client, rnd1, rnd2)
                /\ refreshes' = Append(refreshes, NewRefresh(client'))
                /\ factory' = [factory EXCEPT !.pc = "refresh",
                                              !.refresh = Len(refreshes')]
           ELSE /\ client' = shutdown(client)
                /\ factory' = [factory EXCEPT
                                 !.pc = "shutdown",
                                 !.error = client.promises[factory.globalSettings].value]
                /\ UNCHANGED <<backend, refreshes>>
        /\ UNCHANGED <<proc, sys, calls, wrapper, build>>

\* createBackend resumes after `await client.shutdown()` and throws the error.
CreateShutdownResume ==
    /\ factory.pc = "shutdown"
    /\ endPromise(sys) = "resolved"
    /\ factory' = [factory EXCEPT !.pc = "failed"]
    /\ UNCHANGED <<client, proc, sys, backend, calls, refreshes, wrapper, build>>

\* _refreshCacheEntries resumes after `await this.client.getCMakeCacheContent()`
\* and installs the new cache entries, or rejects.
RefreshCacheResume ==
    \E i \in 1..Len(refreshes) :
        /\ refreshes[i].cacheDone = "pending"
        /\ await(client.promises[refreshes[i].cache]) # "pending"
        /\ IF await(client.promises[refreshes[i].cache]) = "resolved"
           THEN /\ backend' = refreshCacheEntries(backend,
                                 [cache |-> cacheOf(
                                    client.promises[refreshes[i].cache].value.content)])
                /\ refreshes' = [refreshes EXCEPT ![i].cacheDone = "installed"]
           ELSE /\ refreshes' = [refreshes EXCEPT
                                  ![i].cacheDone = "failed",
                                  ![i].first = IF @ = "none" THEN "cache" ELSE @]
                /\ UNCHANGED backend
        /\ UNCHANGED <<client, proc, sys, factory, calls, wrapper, build>>

\* _refreshCodeModel resumes after `await this.client.codemodel()` and
\* installs the new code model, or rejects.
RefreshCodeModelResume ==
    \E i \in 1..Len(refreshes) :
        /\ refreshes[i].codemodelDone = "pending"
        /\ await(client.promises[refreshes[i].codemodel]) # "pending"
        /\ IF await(client.promises[refreshes[i].codemodel]) = "resolved"
           THEN /\ backend' = [backend EXCEPT !.codeModel =
                                 client.promises[refreshes[i].codemodel].value.content]
                /\ refreshes' = [refreshes EXCEPT ![i].codemodelDone = "installed"]
           ELSE /\ refreshes' = [refreshes EXCEPT
                                  ![i].codemodelDone = "failed",
                                  ![i].first = IF @ = "none" THEN "codemodel" ELSE @]
                /\ UNCHANGED backend
        /\ UNCHANGED <<client, proc, sys, factory, calls, wrapper, build>>

\* The cache reply lacks the `cache` list or the `properties` of an entry:
\* _refreshCacheEntries resumes and throws a TypeError from its reduce.
RefreshCacheMalformed ==
    \E i \in 1..Len(refreshes) :
        /\ refreshes[i].cacheDone = "pending"
        /\ await(client.promises[refreshes[i].cache]) = "resolved"
        /\ refreshes' = [refreshes EXCEPT
                           ![i].cacheDone = "failed",
                           ![i].first = IF @ = "none" THEN "cache" ELSE @]
        /\ UNCHANGED <<client, proc, sys, factory, backend, calls, wrapper, build>>

\* create() resumes after `await backend._refreshAfterConfigure()`: a
\* ServerError is ignored and the backend is returned to the caller; any
\* other error is thrown on, and the catch clause of createBackend calls
\* client.shutdown().
CreateRefreshResume ==
    /\ factory.pc = "refresh"
    /\ RefreshOutcome(refreshes[factory.refresh]) # "pending"
    /\ IF /\ RefreshOutcome(refreshes[factory.refresh]) = "rejected"
          /\ createCatch(refreshError(client, refreshes[factory.refresh])) = "raised"
       THEN /\ client' = shutdown(client)
            /\ factory' = [factory EXCEPT
                             !.pc = "shutdown",
                             !.error = refreshError(client, refreshes[factory.refresh])]
       ELSE /\ factory' = [factory EXCEPT !.pc = "ready"]
            /\ UNCHANGED client
    /\ UNCHANGED <<proc, sys, backend, calls, refreshes, wrapper, build>>

\* A _preconfigure that refuses while another operation is running.
preconfigureExclusive(cs) == \A c \in 1..Len(cs) : cs[c].pc = "done"

\* The checks configure() makes before it starts: none (the call of
\* _preconfigure is commented out).
preconfigure(cs) == TRUE

\* A caller that was handed the backend calls configure(): the call runs up
\* to `await this.client.configure(...)`.
configure ==
    \E rnd \in FreshValues(client), handler \in BOOLEAN :
        /\ factory.pc = "ready"
        /\ preconfigure(calls)
        /\ client' = sendRequest(client, "configure", FALSE, FALSE, rnd)
        /\ calls' = Append(calls,
                      [pc |-> "configure", handler |-> handler,
                       configure |-> Len(client'.reqs),
                       compute |-> 0, refresh |-> 0,
                       result |-> "none", fired |-> 0])
        /\ UNCHANGED <<proc, sys, factory, backend, refreshes, wrapper, build>>

\* One caller at a time calls configure().
ConfigureCall ==
    /\ Len(calls) < MaxCalls
    /\ configure

\* configure() resumes after `await this.client.configure(...)`: it calls
\* this.client.compute(), or its catch clause runs.
ConfigureResume ==
    \E c \in 1..Len(calls), rnd \in FreshValues(client) :
        /\ calls[c].pc = "configure"
        /\ await(client.promises[calls[c].configure]) # "pending"
        /\ IF await(client.promises[calls[c].configure]) = "resolved"
           THEN /\ client' = sendRequest(client, "compute", FALSE, FALSE, rnd)
                /\ calls' = [calls EXCEPT ![c].pc = "compute",
                                          ![c].compute = Len(client'.reqs)]
           ELSE /\ calls' = [calls EXCEPT
                               ![c].pc = "done",
                               ![c].result = configureCatch(
                                   client.promises[calls[c].configure].value)]
                /\ UNCHANGED client
        /\ UNCHANGED <<proc, sys, factory, backend, refreshes, wrapper, build>>

\* configure() resumes after `await this.client.compute()`: it starts
\* _refreshAfterConfigure(), or its catch clause runs.
ComputeResume ==
    \E c \in 1..Len(calls), rnd1 \in FreshValues(client) :
      \E rnd2 \in FreshValues(sendRequest(client, "cache", FALSE, FALSE, rnd1)) :
        /\ calls[c].pc = "compute"
        /\ await(client.promises[calls[c].compute]) # "pending"
        /\ IF await(client.promises[calls[c].compute]) = "resolved"
           THEN /\ client' = refreshRequests(client, rnd1, rnd2)
                /\ refreshes' = Append(refreshes, NewRefresh(client'))
                /\ calls' = [calls EXCEPT ![c].pc = "refresh",
                                          ![c].refresh = Len(refreshes')]
           ELSE /\ calls' = [calls EXCEPT
                               ![c].pc = "done",
                               ![c].result = configureCatch(
                                   client.promises[calls[c].compute].value)]
                /\ UNCHANGED <<client, refreshes>>
        /\ UNCHANGED <<proc, sys, factory, backend, wrapper, build>>

\* configure() resumes after `await this._refreshAfterConfigure()`: it fires
\* the reconfigured event and returns true; a rejection is thrown on.
ConfigureRefreshResume ==
    \E c \in 1..Len(calls) :
        /\ calls[c].pc = "refresh"
        /\ RefreshOutcome(refreshes[calls[c].refresh]) # "pending"
        /\ IF RefreshOutcome(refreshes[calls[c].refresh]) = "resolved"
           THEN calls' = [calls EXCEPT ![c].pc = "done",
                                       ![c].fired = @ + 1,
                                       ![c].result = "true"]
           ELSE calls' = [calls EXCEPT ![c].pc = "done",
                                       ![c].result = refreshRejected(
                                           client.promises[RejectedRefresh(
                                               refreshes[calls[c].refresh])].value)]
        /\ UNCHANGED <<client, proc, sys, factory, backend, refreshes, wrapper, build>>

Next ==
    \/ TimerFire
    \/ ServerHello
    \/ ServerAnswer
    \/ ServerRepeat
    \/ ServerStray
    \/ HelloResume
    \/ ClientConfigure
    \/ ClientGetCache

Spec == Init /\ [][Next]_vars

\* Observers: callers pass progress and message observers, some of which
\* throw when called, to a server that answers.
NextObserver ==
    \/ TimerFire
    \/ ServerHello
    \/ ServerAnswer
    \/ HelloResume
    \/ ClientObserve

SpecObserver == Init /\ [][NextObserver]_vars

\* The factory: a binary directory in any state, and one call of
\* initializeConfigured or initializeNew, followed by the start-up.
InitFactory ==
    \E c \in Caches :
        /\ client = NewClient(0)
        /\ proc = NewProc("none")
        /\ sys = [timerFired |-> FALSE, endResolved |-> FALSE,
                  exitResolved |-> FALSE, cache |-> c]
        /\ factory = [pc |-> "idle", globalSettings |-> 0, refresh |-> 0,
                      entry |-> "none", error |-> NoMsg]
        /\ backend = NewBackend
        /\ calls = <<>>
        /\ refreshes = <<>>
        /\ wrapper = NewWrapper(DefaultConfig, {})
        /\ build = NoBuild

NextFactory ==
    \/ InitializeConfigured
    \/ InitializeNew
    \/ TimerFire
    \/ ServerHello
    \/ ServerAnswer
    \/ HelloResume
    \/ FactoryStartResume
    \/ CreateResume
    \/ RefreshCacheResume
    \/ RefreshCodeModelResume
    \/ CreateRefreshResume

SpecFactory == InitFactory /\ [][NextFactory]_vars

\* Startup and failure: the factory creates the backend while the process
\* may exit and the pipe may fail or end.
NextStart ==
    \/ TimerFire
    \/ ProcExit
    \/ PipeError
    \/ PipeEnd
    \/ ServerHello
    \/ ServerAnswer
    \/ HelloResume
    \/ FactoryStartResume
    \/ CreateResume
    \/ CreateShutdownResume
    \/ RefreshCacheResume
    \/ RefreshCacheMalformed
    \/ RefreshCodeModelResume
    \/ CreateRefreshResume

SpecStart == Init /\ [][NextStart]_vars

\* The same, with every handler and continuation that can run running in
\* the end (the event loop does not stop while work is queued).
SpecStartLive == SpecStart /\ WF_vars(NextStart)

\* The factory and Backend.configure over a server that stays up.
NextBackend ==
    \/ TimerFire
    \/ ServerHello
    \/ ServerAnswer
    \/ HelloResume
    \/ FactoryStartResume
    \/ CreateResume
    \/ RefreshCacheResume
    \/ RefreshCodeModelResume
    \/ CreateRefreshResume
    \/ ConfigureCall
    \/ ConfigureResume
    \/ ComputeResume
    \/ ConfigureRefreshResume

SpecBackend == Init /\ [][NextBackend]_vars

\* ---------------------------------------------------------------- signals

\* The server sends a signal; _onMessage calls onDirty for `dirty` and drops
\* `fileChange`.
ServerSignal ==
    \E name \in {"dirty", "fileChange"} :
        /\ Readable
        /\ Len(backend.signals) < MaxSignals
        /\ client' = onMessage(client, SignalMsg(name), 1)
        /\ backend' = [(IF name = "dirty" THEN onDirty(backend) ELSE backend)
                          EXCEPT !.signals = Append(@, name)]
        /\ UNCHANGED <<proc, sys, factory, calls, refreshes, wrapper, build>>

NextSignal ==
    \/ TimerFire
    \/ ServerHello
    \/ ServerAnswer
    \/ ServerSignal
    \/ HelloResume
    \/ FactoryStartResume
    \/ CreateResume
    \/ RefreshCacheResume
    \/ RefreshCodeModelResume
    \/ CreateRefreshResume

SpecSignal == Init /\ [][NextSignal]_vars

\* The two calls of configure() that overlap on one backend.
OverlappingCalls == {1, 2}

\* Overlapping calls of configure() on a backend that is ready.
ConfigureOverlap ==
    /\ Len(calls) < Cardinality(OverlappingCalls)
    /\ configure

InitConfigure ==
    /\ client = [NewClient(1) EXCEPT !.pipe = "open", !.resolved = TRUE,
                     !.start = Settle(PendingPromise, "resolved", NoMsg)]
    /\ proc = [NewProc("running") EXCEPT !.helloSent = TRUE]
    /\ sys = [timerFired |-> TRUE, endResolved |-> FALSE, exitResolved |-> FALSE,
              cache |-> [exists |-> TRUE, home |-> 1]]
    /\ factory = [pc |-> "ready", globalSettings |-> 0, refresh |-> 0,
                  entry |-> "configured", error |-> NoMsg]
    /\ backend = NewBackend
    /\ calls = <<>>
    /\ refreshes = <<>>
    /\ wrapper = NewWrapper(DefaultConfig, {})
    /\ build = NoBuild

NextConfigure ==
    \/ ServerAnswer
    \/ ConfigureOverlap
    \/ ConfigureResume
    \/ ComputeResume
    \/ RefreshCacheResume
    \/ RefreshCodeModelResume
    \/ ConfigureRefreshResume

SpecConfigure == InitConfigure /\ [][NextConfigure]_vars

\* ------------------------------------------------- the getter `targets`

\* The targets a codemodel reply can report: with or without a build
\* directory; without an artifacts property, with an empty one, or with one
\* artifact path.
ArtifactLists ==
    {[present |-> FALSE, paths |-> <<>>],
     [present |-> TRUE, paths |-> <<>>],
     [present |-> TRUE, paths |-> <<"out/./a">>],
     [present |-> TRUE, paths |-> <<"out/a">>]}

Targets ==
    [name : {"MyExecutable"}, type : {"EXECUTABLE"},
     buildDirectory : BOOLEAN, artifacts : ArtifactLists]
    \cup
    [name : {"MyInterface"}, type : {"INTERFACE_LIBRARY"},
     buildDirectory : BOOLEAN, artifacts : ArtifactLists]

\* The values of the public field generator: the class leaves it
\* unassigned, the owner of a backend may assign it.
Generators == {"undefined", "Unix Makefiles", "Visual Studio 15 2017"}

\* A backend whose last codemodel reply reported the targets ts, or one that
\* has no code model yet.
InitTargets ==
    /\ client = [NewClient(1) EXCEPT !.pipe = "open", !.resolved = TRUE,
                     !.start = Settle(PendingPromise, "resolved", NoMsg)]
    /\ proc = [NewProc("running") EXCEPT !.helloSent = TRUE]
    /\ sys = [timerFired |-> TRUE, endResolved |-> FALSE, exitResolved |-> FALSE,
              cache |-> [exists |-> TRUE, home |-> 1]]
    /\ factory = [pc |-> "ready", globalSettings |-> 0, refresh |-> 0,
                  entry |-> "configured", error |-> NoMsg]
    /\ calls = <<>>
    /\ refreshes = <<>>
    /\ wrapper = NewWrapper(DefaultConfig, {})
    /\ build = NoBuild
    /\ \E g \in Generators :
        \/ backend = [NewBackend EXCEPT !.generator = g]
        \/ \E n \in 0..MaxTargets : \E ts \in [1..n -> Targets] :
              backend = [NewBackend EXCEPT !.generator = g,
                                           !.codeModel = 1,
                                           !.projects = ts]

\* The owner of the backend reads `targets`.
ReadTargets ==
    /\ Len(calls) < MaxCalls
    /\ calls' = Append(calls, [pc |-> "targets", result |-> targets(backend)])
    /\ UNCHANGED <<client, proc, sys, factory, backend, refreshes, wrapper, build>>

NextTargets == ReadTargets

SpecTargets == InitTargets /\ [][NextTargets]_vars

\* ------------------------------------------------ actions of the wrapper

clientVars == <<client, proc, sys, factory, backend, calls, refreshes, build>>

\* A continuation of the wrapper is queued as a microtask: a callback of
\* restartBackend whose previous promise has settled, a startBackend whose
\* validateBinaryDir returned without a file check, or a configure() whose
\* awaited backend promise has settled.  Timers, file checks, server events
\* and commands run only when no microtask is queued.
MicrotaskQueued ==
    \/ \E i \in 1..Len(wrapper.tasks) :
          \/ /\ wrapper.tasks[i].pc = "chained"
             /\ wrapper.promises[wrapper.tasks[i].prev].state # "pending"
          \/ /\ wrapper.tasks[i].pc = "validate"
             /\ wrapper.tasks[i].dir = 0
    \/ \E c \in 1..Len(wrapper.configs) :
          /\ wrapper.configs[c].pc = "backend"
          /\ wrapper.promises[wrapper.configs[c].awaits].state # "pending"

\* The owner of the wrapper assigns another path, or undefined (0), to
\* model.buildDirectory.
assignBuildDirectory ==
    \E path \in {0} \cup Directories :
        /\ ~MicrotaskQueued
        /\ path # wrapper.buildDirectory
        /\ wrapper' = setBuildDirectory(wrapper, path)
        /\ UNCHANGED clientVars

SetBuildDirectory ==
    /\ Len(wrapper.tasks) < MaxRestarts
    /\ assignBuildDirectory

\* The same while calls of configure() are made.
ProjectBuildDirectory ==
    /\ Len(wrapper.tasks) < MaxProjectRestarts
    /\ assignBuildDirectory

\* The user changes one setting, or the configured build directory, and
\* onDidChangeConfiguration fires.
ChangeConfiguration ==
    \E s \in Settings \cup {"buildDirectory"} : \E v \in Directories :
        /\ ~MicrotaskQueued
        /\ wrapper.changes < MaxChanges
        /\ Len(wrapper.tasks) < MaxRestarts
        /\ v # wrapper.config[s]
        /\ wrapper' = onDidChangeConfiguration(wrapper,
                                               [wrapper.config EXCEPT ![s] = v])
        /\ UNCHANGED clientVars

\* The previous backend promise of restart i has settled: resolved, the then
\* callback calls backend.dispose() and awaits it; rejected, the catch
\* callback calls startBackend().
RestartResume ==
    \E i \in 1..Len(wrapper.tasks) :
        LET t == wrapper.tasks[i]
            p == wrapper.promises[t.prev]
        IN  /\ t.pc = "chained"
            /\ p.state # "pending"
            /\ wrapper' =
                 IF p.state = "resolved"
                 THEN thenDispose(wrapper, i)
                 ELSE startBackend(wrapper, i, "catch")
            /\ UNCHANGED clientVars

\* The pipe of a backend's client emits 'error'.
BackendPipeError ==
    \E b \in 1..Len(wrapper.backends) :
        /\ ~MicrotaskQueued
        /\ wrapper.backends[b].state = "ready"
        /\ ~wrapper.backends[b].pipeError
        /\ wrapper' = [wrapper EXCEPT !.backends[b].pipeError = TRUE]
        /\ UNCHANGED clientVars

\* `await backend.dispose()` of restart i returns, which takes the 'end' of
\* the pipe and the 'exit' of the server; the then callback calls
\* startBackend().
DisposeResume ==
    \E i \in 1..Len(wrapper.tasks) :
        LET t == wrapper.tasks[i]
            b == wrapper.promises[t.prev].backend
        IN  /\ ~MicrotaskQueued
            /\ t.pc = "dispose"
            /\ ~wrapper.backends[b].pipeError
            /\ wrapper' = startBackend([wrapper EXCEPT !.backends[b].state = "disposed"],
                                       i, "then")
            /\ UNCHANGED clientVars

\* startBackend() resumes after validateBinaryDir: without a directory or a
\* CMakeCache.txt in it the state is "Unconfigured" and the result is
\* createUnconfiguredBackend(); otherwise the state is "Initializing" and
\* initializeConfigured is called and awaited.
ValidateResume ==
    \E i \in 1..Len(wrapper.tasks) :
        LET t == wrapper.tasks[i]
        IN  /\ t.pc = "validate"
            /\ t.dir # 0 => ~MicrotaskQueued
            /\ wrapper' =
                 IF t.dir = 0 \/ t.dir \notin wrapper.caches
                 THEN startRejected([wrapper EXCEPT !.state = "Unconfigured"], i,
                                    createUnconfiguredBackend.error)
                 ELSE [wrapper EXCEPT !.state = "Initializing",
                                      !.tasks[i].pc = "initialize",
                                      !.tasks[i].created = Len(wrapper.backends) + 1,
                                      !.backends = Append(@, [dir |-> t.dir,
                                                              state |-> "starting",
                                                              pipeError |-> FALSE])]
            /\ UNCHANGED clientVars

\* initializeConfigured resolves: the state is "Ready" and startBackend()
\* returns the backend, which resolves the backend promise of the restart.
InitializeResolved ==
    \E i \in 1..Len(wrapper.tasks) :
        LET t == wrapper.tasks[i]
        IN  /\ ~MicrotaskQueued
            /\ t.pc = "initialize"
            /\ wrapper.backends[t.created].state = "starting"
            /\ wrapper' = [wrapper EXCEPT !.state = "Ready",
                                          !.backends[t.created].state = "ready",
                                          !.tasks[i].pc = "done",
                                          !.promises[t.result] =
                                              [state |-> "resolved", error |-> "",
                                               backend |-> t.created]]
            /\ UNCHANGED clientVars

\* initializeConfigured (or createBackendFactory) rejects: the state is
\* "Error" and startBackend() throws the error again.
InitializeRejected ==
    \E i \in 1..Len(wrapper.tasks) :
        LET t == wrapper.tasks[i]
        IN  /\ ~MicrotaskQueued
            /\ t.pc = "initialize"
            /\ wrapper.backends[t.created].state = "starting"
            /\ wrapper' = startRejected(
                              [wrapper EXCEPT !.state = "Error",
                                              !.backends[t.created].state = "failed"],
                              i, "Error")
            /\ UNCHANGED clientVars

\* The server of a starting backend exits before the listeners of the
\* client are registered, or with code 0 before the handshake: start()
\* stays pending and so does initializeConfigured.
InitializeHangs ==
    \E i \in 1..Len(wrapper.tasks) :
        LET t == wrapper.tasks[i]
        IN  /\ ~MicrotaskQueued
            /\ t.pc = "initialize"
            /\ wrapper.backends[t.created].state = "starting"
            /\ wrapper' = [wrapper EXCEPT !.backends[t.created].state = "hung"]
            /\ UNCHANGED clientVars

\* A command calls CMakeToolsWrapper.configure().
WrapperConfigure ==
    /\ ~MicrotaskQueued
    /\ Len(wrapper.configs) < MaxConfigures
    /\ wrapper' = wrapperConfigure(wrapper)
    /\ UNCHANGED clientVars

\* configure() of call c resumes after `await this.backend`: with a backend
\* it calls backend.configure(); on an UnconfiguredProjectError it calls
\* configureNewProject(); any other error is thrown on.
ConfigureBackendResume ==
    \E c \in 1..Len(wrapper.configs) :
        LET p == wrapper.promises[wrapper.configs[c].awaits]
        IN  /\ wrapper.configs[c].pc = "backend"
            /\ p.state # "pending"
            /\ wrapper' =
                 IF p.state = "resolved"
                 THEN [wrapper EXCEPT !.configs[c].pc = "configure",
                                      !.configs[c].created = p.backend]
                 ELSE IF p.error = createUnconfiguredBackend.error
                 THEN configureNewProject(wrapper, c)
                 ELSE [wrapper EXCEPT !.configs[c].pc = "done",
                                      !.configs[c].result = "raised"]
            /\ UNCHANGED clientVars

\* startBackendForNewProject of call c resumes after the file check of
\* validateBinaryDir: a directory with a CMakeCache.txt is refused;
\* otherwise initializeNew is called and awaited.
NewValidateResume ==
    \E c \in 1..Len(wrapper.configs) :
        LET t == wrapper.configs[c]
        IN  /\ ~MicrotaskQueued
            /\ t.pc = "validate"
            /\ wrapper' =
                 IF t.dir \in wrapper.caches
                 THEN configureNewCatch(wrapper, c, "Error")
                 ELSE [wrapper EXCEPT !.configs[c].pc = "initialize",
                                      !.configs[c].created = Len(wrapper.backends) + 1,
                                      !.backends = Append(@, [dir |-> t.dir,
                                                              state |-> "starting",
                                                              pipeError |-> FALSE])]
            /\ UNCHANGED clientVars

\* initializeNew of call c resolves: startBackendForNewProject returns the
\* backend and configureNewProject resumes with it.
NewInitializeResolved ==
    \E c \in 1..Len(wrapper.configs) :
        LET t == wrapper.configs[c]
        IN  /\ ~MicrotaskQueued
            /\ t.pc = "initialize"
            /\ wrapper' = configureNewResolved(
                              [wrapper EXCEPT !.backends[t.created].state = "ready"],
                              c, t.created)
            /\ UNCHANGED clientVars

\* initializeNew of call c (or createBackendFactory, or pickGenerator)
\* rejects: the catch clause of configureNewProject runs.
NewInitializeRejected ==
    \E c \in 1..Len(wrapper.configs) :
        LET t == wrapper.configs[c]
        IN  /\ ~MicrotaskQueued
            /\ t.pc = "initialize"
            /\ wrapper' = configureNewCatch(
                              [wrapper EXCEPT !.backends[t.created].state = "failed"],
                              c, "Error")
            /\ UNCHANGED clientVars

\* backend.configure() of call c returns true, having written the
\* CMakeCache.txt of its build directory, or false.
BackendConfigureDone ==
    \E c \in 1..Len(wrapper.configs), ok \in BOOLEAN :
        LET t == wrapper.configs[c]
        IN  /\ ~MicrotaskQueued
            /\ t.pc = "configure"
            /\ wrapper.backends[t.created].state = "ready"
            /\ wrapper' = [wrapper EXCEPT
                             !.configs[c].pc = "done",
                             !.configs[c].result = IF ok THEN "0" ELSE "1",
                             !.caches = IF ok
                                        THEN @ \cup {wrapper.backends[t.created].dir}
                                        ELSE @]
            /\ UNCHANGED clientVars

\* The wrapper after its constructor: model.buildDirectory has been
\* assigned getActiveBinaryDir(), which has called restartBackend().  The
\* build directories that hold a CMakeCache.txt are any.
InitWrapper ==
    /\ client = NewClient(1)
    /\ proc = NewProc("none")
    /\ sys = [timerFired |-> FALSE, endResolved |-> FALSE, exitResolved |-> FALSE,
              cache |-> [exists |-> TRUE, home |-> 1]]
    /\ factory = [pc |-> "idle", globalSettings |-> 0, refresh |-> 0,
                  entry |-> "configured", error |-> NoMsg]
    /\ backend = NewBackend
    /\ calls = <<>>
    /\ refreshes = <<>>
    /\ build = NoBuild
    /\ \E caches \in SUBSET Directories :
          wrapper = setBuildDirectory(NewWrapper(DefaultConfig, caches),
                                      getActiveBinaryDir(DefaultConfig))

NextWrapper ==
    \/ SetBuildDirectory
    \/ ChangeConfiguration
    \/ RestartResume
    \/ BackendPipeError
    \/ DisposeResume
    \/ ValidateResume
    \/ InitializeResolved
    \/ InitializeRejected
    \/ InitializeHangs

SpecWrapper == InitWrapper /\ [][NextWrapper]_vars

\* Every step that can be taken is taken in the end.
SpecWrapperLive == SpecWrapper /\ WF_vars(NextWrapper)

\* Build-directory changes, restarts and configure calls of a wrapper whose
\* servers start or fail but do not hang.
NextProject ==
    \/ ProjectBuildDirectory
    \/ RestartResume
    \/ DisposeResume
    \/ ValidateResume
    \/ InitializeResolved
    \/ InitializeRejected
    \/ WrapperConfigure
    \/ ConfigureBackendResume
    \/ NewValidateResume
    \/ NewInitializeResolved
    \/ NewInitializeRejected
    \/ BackendConfigureDone

SpecProject == InitWrapper /\ [][NextProject]_vars

\* ------------------------------------------------ actions of CMake.build

\* The percentages a line of build output shows; -1 for a line without one.
Percents == {-1, 0, 50, 100}

\* CMake.build(params, progressHandler, token) up to `await onComplete`:
\* the child is spawned and, with a handler, the listeners are attached.
BuildCall ==
    \E handler \in BOOLEAN, token \in BOOLEAN :
        /\ build.pc = "idle"
        /\ build' = [build EXCEPT !.pc = "running", !.handler = handler,
                                  !.token = token, !.child = "running"]
        /\ UNCHANGED <<client, proc, sys, factory, backend, calls, refreshes, wrapper>>

\* The build prints a line.
BuildLine ==
    \E percent \in Percents :
        /\ build.child = "running"
        /\ build.lines < MaxLines
        /\ build' = IF build.handler
                    THEN [onLine(build, percent) EXCEPT !.lines = @ + 1]
                    ELSE [build EXCEPT !.lines = @ + 1]
        /\ UNCHANGED <<client, proc, sys, factory, backend, calls, refreshes, wrapper>>

\* The owner of the token cancels it.
BuildCancel ==
    /\ build.pc = "running"
    /\ build.token
    /\ ~build.cancelled
    /\ build' = [execute2Cancel(build) EXCEPT !.cancelled = TRUE]
    /\ UNCHANGED <<client, proc, sys, factory, backend, calls, refreshes, wrapper>>

\* The build process exits by itself.
BuildExit ==
    \E retc \in {0, 1} :
        /\ build.child = "running"
        /\ build' = [build EXCEPT !.child = "exited", !.retc = retc]
        /\ UNCHANGED <<client, proc, sys, factory, backend, calls, refreshes, wrapper>>

\* CMake.build resumes after `await onComplete` and returns.
BuildResume ==
    /\ build.pc = "running"
    /\ build.child \in {"exited", "killed"}
    /\ build' = [build EXCEPT !.pc = "done", !.result = buildResult(build.retc)]
    /\ UNCHANGED <<client, proc, sys, factory, backend, calls, refreshes, wrapper>>

NextBuild ==
    \/ BuildCall
    \/ BuildLine
    \/ BuildCancel
    \/ BuildExit
    \/ BuildResume

SpecBuild == Init /\ [][NextBuild]_vars

\* ----------------------------------------------------------------- claims

\* Framing: the pipe is connected and the server writes frames, which reach
\* _onMoreData in one or two reads.

\* The payload strings of at most MaxLen pieces.
Payloads == UNION {[1..n -> RawChars] : n \in 0..MaxLen}

\* A frame the server writes: one that carries payload P, or a broken one.
GoodFrame(P) == [ok |-> TRUE, payload |-> P, bytes |-> encode(P)]

\* Frames whose content is no JSON text: a truncated object, and nothing at
\* all between the markers.
BrokenFrames ==
    {[ok |-> FALSE, payload |-> <<>>, bytes |-> frame(<<"{">>)],
     [ok |-> FALSE, payload |-> <<>>, bytes |-> StartMarker \o EndMarker]}

\* The state in which the pipe is connected and the server has written the
\* frames `sent`, whose bytes will arrive in the reads `out`.
InitWire(sent, out) ==
    /\ client = [NewClient(1) EXCEPT !.pipe = "open"]
    /\ proc = [NewProc("running") EXCEPT !.sent = sent, !.out = out]
    /\ sys = [timerFired |-> TRUE, endResolved |-> FALSE,
              exitResolved |-> FALSE,
              cache |-> [exists |-> TRUE, home |-> 1]]
    /\ factory = [pc |-> "start", globalSettings |-> 0, refresh |-> 0,
                  entry |-> "configured", error |-> NoMsg]
    /\ backend = NewBackend
    /\ calls = <<>>
    /\ refreshes = <<>>
    /\ wrapper = NewWrapper(DefaultConfig, {})
    /\ build = NoBuild

\* The ways the bytes of the frames sent reach the client: one frame in one
\* read, one frame split over two reads, two frames in one read, and a
\* broken frame followed by a good one in one read or in two.
InitCodec ==
    \/ \E P \in Payloads :
          InitWire(<<GoodFrame(P)>>, <<encode(P)>>)
    \/ \E P \in Payloads :
          \E k \in 1..(Len(encode(P)) - 1) :
              InitWire(<<GoodFrame(P)>>,
                       <<SubSeq(encode(P), 1, k),
                         SubSeq(encode(P), k + 1, Len(encode(P)))>>)
    \/ \E P \in Payloads, Q \in Payloads :
          InitWire(<<GoodFrame(P), GoodFrame(Q)>>, <<encode(P) \o encode(Q)>>)
    \/ \E b \in BrokenFrames, P \in Payloads :
          InitWire(<<b, GoodFrame(P)>>, <<b.bytes \o encode(P)>>)
    \/ \E b \in BrokenFrames, P \in Payloads :
          InitWire(<<b, GoodFrame(P)>>, <<b.bytes, encode(P)>>)

\* A 'data' event of the pipe: the next read reaches _onMoreData.
PipeData ==
    /\ Readable
    /\ proc.out # <<>>
    /\ client' = onMoreData(client, Head(proc.out))
    /\ proc' = [proc EXCEPT !.out = Tail(@), !.reads = @ + 1]
    /\ UNCHANGED <<sys, backendVars>>

NextCodec == PipeData

SpecCodec == InitCodec /\ [][NextCodec]_vars


Requests == 1..Len(client.reqs)

\* No other request of the client has ever borne the cookie of request r.
UniqueCookie(r) ==
    \A q \in Requests \ {r} : client.reqs[q].cookie # client.reqs[r].cookie

\* Request r is still registered in the correlation table.
InTable(r) ==
    /\ client.reqs[r].cookie \in DOMAIN client.resolvers
    /\ client.resolvers[client.reqs[r].cookie] = r

\* The cookied messages the server can send in the current state.
CookiedMessages ==
    {AnswerTo(client, k, t) :
        k \in {i \in Requests : client.reqs[i].written},
        t \in {"reply", "error", "progress", "message"}}
    \cup {StrayMsg(client, t) : t \in {"reply", "error", "progress", "message"}}

\* C1: a request whose cookie no other request bears is resolved only with
\* the reply the server made to that very request (same cookie, same
\* content), whatever the order in which the replies arrive.
C1_OwnReply ==
    \A r \in Requests :
        (client.promises[r].state = "resolved" /\ UniqueCookie(r))
            => client.promises[r].value = AnswerTo(client, r, "reply")

\* Two requests with distinct cookies were outstanding together and the
\* later one has been resolved first.
C1_Witness ==
    \E r, q \in Requests :
        /\ r < q
        /\ UniqueCookie(r) /\ UniqueCookie(q)
        /\ client.reqs[r].type # "handshake"
        /\ InTable(r) /\ client.promises[r].state = "pending"
        /\ client.promises[q].state = "resolved"

\* C2: the entry of a request is deleted at most once and its promise is
\* settled by at most one call; deletion and settlement go together, are
\* caused by a reply or an error bearing the request's cookie, and no
\* progress or message dispatch deletes an entry or settles a promise.
C2_RemovedOnce ==
    /\ \A r \in Requests :
          /\ client.removed[r] <= 1
          /\ client.promises[r].calls <= 1
          /\ client.promises[r].calls = client.removed[r]
          /\ (client.removed[r] = 1) <=> (client.promises[r].state # "pending")
          /\ client.removed[r] = 1 => ~InTable(r)
          /\ client.promises[r].state # "pending" =>
                /\ client.promises[r].value.type \in {"reply", "error"}
                /\ client.promises[r].value.cookie = client.reqs[r].cookie
    /\ \A some \in CookiedMessages :
          some.type \in {"progress", "message"} =>
              /\ onMessage(client, some, 1).resolvers = client.resolvers
              /\ onMessage(client, some, 1).promises = client.promises
              /\ onMessage(client, some, 1).removed = client.removed

\* A caller's request was rejected and its entry deleted while another
\* request is still registered.
C2_Witness ==
    \E r, q \in Requests :
        /\ client.reqs[r].type # "handshake"
        /\ client.removed[r] = 1
        /\ client.promises[r].calls = 1
        /\ client.promises[r].state = "rejected"
        /\ InTable(q)

\* C3: a configure() call has sent its compute request only if its configure
\* request has been resolved by a reply, and a call whose configure request
\* was rejected by a server error has sent no compute request.
C3_ComputeAfterConfigure ==
    \A c \in 1..Len(calls) :
        /\ calls[c].compute # 0 =>
              /\ client.promises[calls[c].configure].state = "resolved"
              /\ client.promises[calls[c].configure].value.type = "reply"
              /\ calls[c].configure < calls[c].compute
              /\ client.reqs[calls[c].compute].type = "compute"
        /\ client.promises[calls[c].configure].state = "rejected" =>
              calls[c].compute = 0
        /\ Cardinality({i \in Requests : client.reqs[i].type = "compute"})
              <= Len(calls)

\* A call has sent its compute request.
C3_Witness ==
    \E c \in 1..Len(calls) :
        /\ calls[c].compute # 0
        /\ client.reqs[calls[c].compute].written

\* C4: a handshake request is sent only once hello has been received, and
\* any other request only after a handshake request has been resolved by a
\* reply and start() has resolved.
C4_HandshakeFirst ==
    \A i \in Requests :
        IF client.reqs[i].type = "handshake"
        THEN proc.helloSent
        ELSE /\ client.start.state = "resolved"
             /\ \E h \in 1..(i - 1) :
                   /\ client.reqs[h].type = "handshake"
                   /\ client.promises[h].state = "resolved"
                   /\ client.promises[h].value.type = "reply"

\* A configure request has been sent.
C4_Witness ==
    \E i \in Requests : client.reqs[i].type = "configure"

\* C5 (as claimed): once the process has exited with a non-zero code
\* before sending hello, start() is rejected with the StartupError of that
\* code, by exactly one call of reject.
C5_CrashRejectsStart ==
    (proc.state = "exited" /\ proc.retc # 0 /\ ~proc.helloSent) =>
        /\ client.start.state = "rejected"
        /\ client.start.value = StartupError(proc.retc)
        /\ client.start.calls = 1

\* The connection has failed or the handshake was answered with an error,
\* every handler and continuation this triggers has run, and start() had not
\* resolved.  (The crash of the process is the case of C5.)
FailedBeforeReady ==
    /\ client.start.state # "resolved"
    /\ \A r \in client.helloAwait : client.promises[r].state = "pending"
    /\ \/ client.pipe = "destroyed"
       \/ \E r \in Requests :
             /\ client.reqs[r].type = "handshake"
             /\ client.promises[r].state = "rejected"

\* C6 (as claimed): a failure of the connection or of the handshake before
\* the client is ready rejects start(), which is settled by exactly one call.
C6_FailureRejectsStart ==
    FailedBeforeReady =>
        /\ client.start.state = "rejected"
        /\ client.start.calls = 1

\* The request whose rejection ended call c in its catch clause, 0 if none.
RejectedRequest(c) ==
    IF client.promises[calls[c].configure].state = "rejected"
    THEN calls[c].configure
    ELSE IF calls[c].compute # 0
            /\ client.promises[calls[c].compute].state = "rejected"
    THEN calls[c].compute
    ELSE 0

\* C7: a finished configure() call whose configure or compute request was
\* answered with an error has returned false and has not thrown; false is
\* returned in no other case; an error that is no ServerError is thrown on by
\* the catch clause.
C7_ServerErrorGivesFalse ==
    /\ \A c \in 1..Len(calls) :
          IF calls[c].pc = "done"
          THEN /\ (RejectedRequest(c) # 0) <=> (calls[c].result = "false")
               /\ RejectedRequest(c) # 0 =>
                     client.promises[RejectedRequest(c)].value.type = "error"
               /\ calls[c].result \in {"true", "false", "raised"}
          ELSE calls[c].result = "none"
    /\ configureCatch(StartupError(1)) = "raised"

\* A call has returned false because its compute request was answered with
\* an error.
C7_Witness ==
    \E c \in 1..Len(calls) :
        /\ calls[c].result = "false"
        /\ calls[c].compute # 0
        /\ client.promises[calls[c].compute].state = "rejected"

\* C8: a configure() call fires `reconfigured` exactly when it returns true,
\* and then both refreshes of the call have been answered by a reply and
\* installed, after its configure and compute requests were resolved; a call
\* that returns false or throws fires nothing.
C8_ReconfiguredAfterRefresh ==
    \A c \in 1..Len(calls) :
        /\ calls[c].fired <= 1
        /\ (calls[c].fired = 1) <=> (calls[c].result = "true")
        /\ calls[c].result = "true" =>
              /\ calls[c].refresh # 0
              /\ refreshes[calls[c].refresh].cacheDone = "installed"
              /\ refreshes[calls[c].refresh].codemodelDone = "installed"
              /\ client.reqs[refreshes[calls[c].refresh].cache].type = "cache"
              /\ client.reqs[refreshes[calls[c].refresh].codemodel].type = "codemodel"
              /\ client.promises[refreshes[calls[c].refresh].cache].state = "resolved"
              /\ client.promises[refreshes[calls[c].refresh].codemodel].state = "resolved"
              /\ client.promises[calls[c].configure].state = "resolved"
              /\ client.promises[calls[c].compute].state = "resolved"

\* A call has fired the event and returned true.
C8_Witness ==
    \E c \in 1..Len(calls) :
        /\ calls[c].result = "true"
        /\ calls[c].fired = 1

\* C9: dispatching an error message whose cookie is registered rejects the
\* promise of the request registered under that cookie with an error that
\* carries the message's text, cookie and inReplyTo; it deletes that entry
\* only, leaves every other promise and entry as they were, and neither ends
\* the pipe nor throws.
C9_ErrorRejectsOnlyOwn ==
    \A some \in CookiedMessages :
        (some.type = "error" /\ some.cookie \in DOMAIN client.resolvers) =>
            LET r == client.resolvers[some.cookie]
                after == onMessage(client, some, 1)
            IN  /\ client.reqs[r].cookie = some.cookie
                /\ after.promises[r] =
                      [state |-> "rejected",
                       value |-> [type |-> "error", cookie |-> some.cookie,
                                  inReplyTo |-> some.inReplyTo,
                                  content |-> some.content],
                       calls |-> 1]
                /\ \A q \in Requests \ {r} :
                      after.promises[q] = client.promises[q]
                /\ DOMAIN after.resolvers = DOMAIN client.resolvers \ {some.cookie}
                /\ \A c \in DOMAIN after.resolvers :
                      after.resolvers[c] = client.resolvers[c]
                /\ after.pipe = client.pipe
                /\ after.thrown = client.thrown
                /\ after.reqs = client.reqs

\* A request was rejected with the error the server sent about it while a
\* later request of the same client is registered and can be answered.
C9_Witness ==
    \E r, q \in Requests :
        /\ r < q
        /\ UniqueCookie(r)
        /\ client.promises[r].state = "rejected"
        /\ client.promises[r].value = AnswerTo(client, r, "error")
        /\ InTable(q)
        /\ client.pipe = "open"

\* C10: dispatching a cookied message whose cookie is not registered changes
\* no promise and no table entry, invokes no observer and throws nothing.
C10_UnknownCookieDropped ==
    \A some \in CookiedMessages :
        some.cookie \notin DOMAIN client.resolvers =>
            LET after == onMessage(client, some, 1)
            IN  /\ after.promises = client.promises
                /\ after.resolvers = client.resolvers
                /\ after.removed = client.removed
                /\ after.reqs = client.reqs
                /\ after.observed = NoCall
                /\ after.thrown = client.thrown
                /\ after.pipe = client.pipe

\* The last message dispatched bore the cookie of a request that had been
\* settled before, and was dropped.
C10_Witness ==
    \E r \in Requests :
        /\ client.invalidCookie = client.reqs[r].cookie
        /\ client.promises[r].state # "pending"
        /\ client.removed[r] = 1
        /\ client.reqs[r].cookie \notin DOMAIN client.resolvers

\* The log _onMoreData leaves when it dispatches exactly the payloads of
\* the given frames, in their order.
Dispatches(frames) ==
    [i \in 1..Len(frames) |-> [kind |-> "message", payload |-> frames[i].payload]]

\* One good frame was sent.
OneFrame == Len(proc.sent) = 1 /\ proc.sent[1].ok

\* C11: when the bytes sendRequest writes for a payload P reach _onMoreData
\* in one read, starting from an empty buffer, exactly one message is
\* dispatched, it equals P, and the input buffer is empty afterwards.
C11_FramingRoundTrip ==
    (OneFrame /\ proc.reads = 1 /\ proc.out = <<>>) =>
        /\ client.dispatched = Dispatches(proc.sent)
        /\ client.accInput = <<>>
        /\ ~client.thrown

\* A payload that is the text of the closing marker made the round trip.
C11_Witness ==
    /\ OneFrame
    /\ proc.reads = 1
    /\ proc.out = <<>>
    /\ proc.sent[1].payload = EndMarker
    /\ client.dispatched = <<[kind |-> "message", payload |-> EndMarker]>>

TwoFrames == Len(proc.sent) = 2 /\ proc.sent[1].ok /\ proc.sent[2].ok

\* C13: when two frames arrive in one read, the payload of the first is
\* dispatched, then that of the second, each once, and the input buffer is
\* empty afterwards.
C13_TwoFramesOneRead ==
    (TwoFrames /\ proc.reads = 1) =>
        /\ client.dispatched = Dispatches(proc.sent)
        /\ client.accInput = <<>>
        /\ ~client.thrown

\* Two frames with different payloads were read at once and dispatched in
\* the order sent.
C13_Witness ==
    /\ TwoFrames
    /\ proc.reads = 1
    /\ proc.sent[1].payload # proc.sent[2].payload
    /\ Len(client.dispatched) = 2
    /\ client.dispatched[1].payload = proc.sent[1].payload
    /\ client.dispatched[2].payload = proc.sent[2].payload

\* C14 (as claimed): once a complete frame has failed to parse, no later
\* message of the connection is dispatched.
C14_ParseErrorAborts ==
    \A i, j \in 1..Len(client.dispatched) :
        (i < j /\ client.dispatched[i].kind = "SyntaxError")
            => client.dispatched[j].kind # "message"

\* C15 (as claimed): the value a request's promise is resolved with holds
\* the content of the reply only, none of the envelope fields type, cookie
\* and inReplyTo.
C15_ContentOnly ==
    \A r \in Requests :
        client.promises[r].state = "resolved" =>
            DOMAIN client.promises[r].value
                \cap {"type", "cookie", "inReplyTo"} = {}

\* Request r was made when its frame could not be written to the pipe.
Unwritten(r) ==
    IF r \in Requests THEN ~client.reqs[r].written ELSE FALSE

\* The promise of request r is settled.
Settled(r) ==
    IF r \in Requests THEN client.promises[r].state # "pending" ELSE FALSE

\* C16 (as claimed): a request method does not throw, and a request that
\* could not be written to the pipe is reported through its promise, which
\* is settled in the end.
C16_FailureReported ==
    /\ [](~client.thrown)
    /\ \A r \in 1..4 : Unwritten(r) ~> Settled(r)

\* C17: dispatching a progress or message for a registered cookie calls the
\* matching observer of that request if one was passed, and no other; it
\* leaves table and promises as they were; an observer that throws does not
\* make the dispatch throw; and a reply for the same cookie dispatched
\* afterwards resolves the request.
C17_ObserverExceptionSwallowed ==
    /\ ~client.thrown
    /\ \A some \in CookiedMessages :
          (some.type \in {"progress", "message"}
             /\ some.cookie \in DOMAIN client.resolvers) =>
              LET r == client.resolvers[some.cookie]
                  registered == IF some.type = "progress"
                                THEN client.reqs[r].progress
                                ELSE client.reqs[r].message
                  after == onMessage(client, some, 1)
                  reply == [some EXCEPT !.type = "reply"]
                  later == onMessage(after, reply, 1)
              IN  /\ after.observed =
                        IF registered
                        THEN [request |-> r, observer |-> some.type,
                              content |-> some.content]
                        ELSE NoCall
                  /\ after.resolvers = client.resolvers
                  /\ after.promises = client.promises
                  /\ after.removed = client.removed
                  /\ after.thrown = client.thrown
                  /\ later.promises[r] =
                        [state |-> "resolved", value |-> reply, calls |-> 1]
                  /\ some.cookie \notin DOMAIN later.resolvers

\* The progress observer of a request was called and threw, and the request
\* is still registered.
C17_Witness ==
    \E r \in Requests :
        /\ client.reqs[r].throws
        /\ client.reqs[r].progress
        /\ client.observed.request = r
        /\ client.observed.observer = "progress"
        /\ InTable(r)
        /\ ~client.thrown

\* C18 (as claimed): initializeNew on a binary directory that holds a
\* CMakeCache.txt fails and spawns no server process.
C18_NewRejectsExistingCache ==
    (factory.entry = "new" /\ sys.cache.exists) =>
        /\ factory.pc = "failed"
        /\ proc.state = "none"

\* C19: initializeConfigured on a binary directory without CMakeCache.txt,
\* or whose cache records no CMAKE_HOME_DIRECTORY, has failed with no
\* process spawned; otherwise it has spawned the server and started the
\* client with the source directory the cache records.
C19_ConfiguredFailsFast ==
    factory.entry = "configured" =>
        IF ~sys.cache.exists \/ sys.cache.home = 0
        THEN /\ factory.pc = "failed"
             /\ proc.state = "none"
        ELSE /\ proc.state # "none"
             /\ client.sourceDir = sys.cache.home

\* initializeConfigured has failed on a cache that exists but records no
\* source directory, and nothing was spawned.
C19_Witness ==
    /\ factory.entry = "configured"
    /\ factory.pc = "failed"
    /\ sys.cache.exists
    /\ sys.cache.home = 0
    /\ proc.state = "none"

\* C20 (as claimed): the targets of a backend always hold exactly one
\* synthetic "build all" entry, and reading them never throws.
C20_OneAllTarget ==
    factory.pc = "ready" =>
        /\ ~targets(backend).thrown
        /\ Cardinality({i \in 1..Len(targets(backend).list) :
                          targets(backend).list[i].targetType = "META"}) = 1

\* The entries `targets` is said to hold after the synthetic one: one for
\* each target with a build directory and at least one artifact, in order.
RealEntries(b) ==
    LET ts == SelectSeq(b.projects, keptNonEmpty)
    IN  [i \in 1..Len(ts) |->
           [type |-> "rich", name |-> ts[i].name,
            filepath |-> normalize(ts[i].artifacts.paths[1]),
            targetType |-> ts[i].type]]

\* C21 (as claimed): read on a backend with a code model and a generator,
\* `targets` holds, after the synthetic entry, one entry for each target
\* that has a build directory and at least one artifact, and none for any
\* other target.
C21_RealTargets ==
    \A i \in 1..Len(calls) :
        (calls[i].pc = "targets" /\ backend.codeModel # 0
                                /\ backend.generator # "undefined") =>
            /\ ~calls[i].result.thrown
            /\ Len(calls[i].result.list) = 1 + Len(RealEntries(backend))
            /\ SubSeq(calls[i].result.list, 2, Len(calls[i].result.list))
                   = RealEntries(backend)

\* C22 (as claimed): a shutdown() that is awaited completes in the end,
\* also when the process has exited or the pipe has errored before, and then
\* the pipe is closed and the child process is gone.
C22_ShutdownCompletes ==
    /\ (factory.pc = "shutdown") ~> (factory.pc = "failed")
    /\ []((factory.pc = "failed" /\ client.pipe # "undefined"
                                 /\ await(client.start) = "resolved")
            => (client.pipe # "open" /\ proc.state = "exited"))

\* No restart of the wrapper is under way.
Quiescent ==
    \A i \in 1..Len(wrapper.tasks) : wrapper.tasks[i].pc = "done"

\* The wrapper is unconfigured: its backend promise is rejected with an
\* UnconfiguredProjectError and the state of its model says so.
Unconfigured ==
    /\ wrapper.promises[wrapper.backend].state = "rejected"
    /\ wrapper.promises[wrapper.backend].error = "UnconfiguredProjectError"
    /\ wrapper.state = "Unconfigured"

\* C23 (as claimed): a wrapper at rest whose build directory is undefined
\* or holds no CMakeCache.txt is unconfigured, and a wrapper whose
\* model.buildDirectory is undefined becomes unconfigured in the end.
C23_Unconfigured ==
    /\ []((Quiescent /\ wrapper.buildDirectory \notin wrapper.caches)
            => Unconfigured)
    /\ (wrapper.buildDirectory = 0)
           ~> (wrapper.buildDirectory # 0 \/ Unconfigured)

\* C24 (as claimed): every change of one of the five settings makes the
\* wrapper call restartBackend().
C24_SettingRestarts ==
    [][(\E s \in Settings : wrapper'.config[s] # wrapper.config[s])
          => Len(wrapper'.tasks) = Len(wrapper.tasks) + 1]_vars

\* C25: a build whose token was cancelled while its process was running
\* has had the process killed, and it resolves to false.
C25_CancelKillsBuild ==
    build.cancelledRunning =>
        /\ build.child = "killed"
        /\ build.pc = "done" => ~build.result

\* A build that was cancelled while it ran has returned.
C25_Witness ==
    /\ build.cancelledRunning
    /\ build.pc = "done"
    /\ build.lines > 0

\* The progress handler of configure call c can be called: it is the
\* progress observer of the call's configure or compute request.
ReportsProgress(c) ==
    \/ client.reqs[calls[c].configure].progress
    \/ IF calls[c].compute # 0
       THEN client.reqs[calls[c].compute].progress
       ELSE FALSE

\* C26 (as claimed): a configure that was given a ProgressHandler and
\* returned true has reported its progress to the handler.
C26_ProgressReported ==
    \A c \in 1..Len(calls) :
        (calls[c].pc = "done" /\ calls[c].handler /\ calls[c].result = "true")
            => ReportsProgress(c)

C28_CrashLeavesPending ==
    [][(client.resolved /\ proc'.state = "exited") =>
          \A r \in Requests :
             /\ client'.promises[r] = client.promises[r]
             /\ InTable(r) => /\ client.reqs[r].cookie \in DOMAIN client'.resolvers
                              /\ client'.resolvers[client.reqs[r].cookie] = r]_vars

\* The server has crashed after the handshake while a request was pending,
\* and the request is still pending and still in the table.
C28_Witness ==
    /\ proc.state = "exited"
    /\ proc.retc # 0
    /\ sys.exitResolved
    /\ await(client.start) = "resolved"
    /\ \E r \in Requests :
          /\ client.reqs[r].type = "globalSettings"
          /\ InTable(r)
          /\ await(client.promises[r]) = "pending"

\* The contents of the replies the client has got to requests of type t.
Replies(t) ==
    {client.promises[r].value.content :
        r \in {q \in Requests : /\ client.reqs[q].type = t
                                /\ client.promises[q].state = "resolved"}}

\* C29: cacheEntries holds no entry or exactly the entries of one cache
\* reply, and codeModel is null or the content of one codemodel reply.
C29_WholeSnapshots ==
    /\ \/ backend.cacheEntries = NewMap
       \/ \E k \in Replies("cache") :
             backend.cacheEntries = reduceCache(cacheOf(k), NewMap)
    /\ \/ backend.codeModel = 0
       \/ backend.codeModel \in Replies("codemodel")

\* The cache entries of a second cache reply have replaced those of the
\* first, and the code model of a second reply that of the first.
C29_Witness ==
    /\ Cardinality(Replies("cache")) = 2
    /\ Cardinality(Replies("codemodel")) = 2
    /\ \E k \in Replies("cache") :
          /\ \A j \in Replies("cache") : j <= k
          /\ backend.cacheEntries = reduceCache(cacheOf(k), NewMap)
    /\ \A j \in Replies("codemodel") : j <= backend.codeModel

C31_DirtyBySignal ==
    factory.pc = "ready" =>
        (backend.dirty <=> \E i \in 1..Len(backend.signals) :
                              backend.signals[i] = "dirty")

\* The handshake request has been answered.
HandshakeAnswered ==
    \E r \in Requests :
        /\ client.reqs[r].type = "handshake"
        /\ client.promises[r].state # "pending"

\* C32: once the server has exited with code 0 before its answer to the
\* handshake, the promise of start() is pending.
C32_CleanExitLeavesStartPending ==
    (proc.state = "exited" /\ proc.retc = 0 /\ ~HandshakeAnswered)
        => await(client.start) = "pending"

\* The server has exited with code 0 while the handshake request was
\* outstanding, the 'close' listener has run, and start() is pending.
C32_Witness ==
    /\ proc.state = "exited"
    /\ proc.retc = 0
    /\ sys.exitResolved
    /\ client.helloAwait # {}
    /\ ~HandshakeAnswered
    /\ await(client.start) = "pending"

\* start() of client cl has rejected with the ServerError of the handshake.
HandshakeRejected(cl) ==
    /\ await(cl.start) = "rejected"
    /\ cl.start.value.type = "error"

\* C33: when the handshake is answered with an error, start() rejects with
\* the ServerError; the step that rejects it leaves the pipe and the child
\* process as they were, the client never ends the pipe afterwards, and no
\* caller is handed the client (the factory only fails, no request but the
\* handshake is ever sent).
C33_HandshakeErrorLeaksServer ==
    [][HandshakeRejected(client') =>
          /\ ~(client'.pipe = "ended" /\ ~sys'.endResolved)
          /\ factory'.pc \in {"start", "failed"}
          /\ CallerRequests(client') = {}
          /\ (~HandshakeRejected(client) =>
                 /\ client'.pipe = client.pipe
                 /\ proc' = proc)]_vars

\* start() has rejected with the ServerError of the handshake, the factory
\* has failed, and the pipe is open and the server running.
C33_Witness ==
    /\ HandshakeRejected(client)
    /\ factory.pc = "failed"
    /\ client.pipe = "open"
    /\ proc.state = "running"

\* createBackend's catch clause has run: create() failed on error e.
CreateFailed(e) ==
    /\ factory'.pc = "shutdown"
    /\ factory'.error = e
    /\ client'.pipe # "open"

\* C34: when the globalSettings request fails, or the initial refresh fails
\* with an error that is no ServerError, the factory calls client.shutdown()
\* and rejects only once that shutdown has completed, with the error that
\* made create() fail.
C34_ShutdownBeforeReject ==
    [][/\ (/\ factory.pc = "globalSettings"
           /\ factory'.pc # "globalSettings"
           /\ await(client.promises[factory.globalSettings]) = "rejected")
          => CreateFailed(client.promises[factory.globalSettings].value)
       /\ (/\ factory.pc = "refresh"
           /\ factory'.pc # "refresh"
           /\ RefreshOutcome(refreshes[factory.refresh]) = "rejected"
           /\ refreshError(client, refreshes[factory.refresh]).type # "error")
          => CreateFailed(refreshError(client, refreshes[factory.refresh]))
       /\ (factory.pc = "shutdown" /\ factory'.pc # "shutdown")
          => /\ factory'.pc = "failed"
             /\ factory'.error = factory.error
             /\ sys.endResolved /\ sys.exitResolved
             /\ client.pipe # "open"]_vars

\* The factory has rejected after a failed globalSettings request, the
\* shutdown complete.
C34_Witness ==
    /\ factory.pc = "failed"
    /\ factory.error.type = "error"
    /\ factory.error.inReplyTo = "globalSettings"
    /\ sys.endResolved /\ sys.exitResolved

\* The factory has rejected with the TypeError of the initial refresh, the
\* shutdown complete.
C34_WitnessRefresh ==
    /\ factory.pc = "failed"
    /\ factory.error = TypeError
    /\ sys.endResolved /\ sys.exitResolved

\* C35: configure() has no mutual exclusion: a ready backend accepts a new
\* call whatever the state of the calls before it, and each call has sent
\* its compute request only after its own configure request was answered
\* with a reply.
C35_NoMutualExclusion ==
    /\ (factory.pc = "ready" /\ Len(calls) < Cardinality(OverlappingCalls))
          => ENABLED ConfigureOverlap
    /\ \A c \in 1..Len(calls) :
          calls[c].compute # 0 =>
              /\ await(client.promises[calls[c].configure]) = "resolved"
              /\ calls[c].compute > calls[c].configure

\* Two calls overlap: the compute request of one has been sent while the
\* configure request of the other, sent before it, is still outstanding.
C35_Witness ==
    \E c, d \in 1..Len(calls) :
        /\ c # d
        /\ calls[c].compute # 0
        /\ calls[d].pc = "configure"
        /\ calls[d].configure < calls[c].compute
        /\ await(client.promises[calls[d].configure]) = "pending"

\* The content of the reply to request r.
ReplyTo(r) == client.promises[r].value.content

\* C36: a refresh sends its cache and its codemodel request in one step,
\* before either is awaited; the continuation of each installs its own
\* reply and leaves the other field as it was, whatever became of the
\* other request.
C36_IndependentInstall ==
    [][/\ Len(refreshes') > Len(refreshes) =>
             LET rf == refreshes'[Len(refreshes')]
             IN  /\ {rf.cache, rf.codemodel} \cap 1..Len(client.reqs) = {}
                 /\ client'.reqs[rf.cache].type = "cache"
                 /\ client'.reqs[rf.codemodel].type = "codemodel"
                 /\ rf.cacheDone = "pending" /\ rf.codemodelDone = "pending"
       /\ \A i \in 1..Len(refreshes) :
             /\ (refreshes[i].cacheDone = "pending"
                   /\ refreshes'[i].cacheDone = "installed")
                => /\ backend'.cacheEntries =
                         reduceCache(cacheOf(ReplyTo(refreshes[i].cache)), NewMap)
                   /\ backend'.codeModel = backend.codeModel
             /\ (refreshes[i].codemodelDone = "pending"
                   /\ refreshes'[i].codemodelDone = "installed")
                => /\ backend'.codeModel = ReplyTo(refreshes[i].codemodel)
                   /\ backend'.cacheEntries = backend.cacheEntries]_vars

\* The codemodel request of the second refresh failed and its cache reply
\* was installed: cacheEntries stems from the second refresh, codeModel
\* from the first.
C36_Witness ==
    /\ Len(refreshes) = 2
    /\ refreshes[1].codemodelDone = "installed"
    /\ refreshes[2].codemodelDone = "failed"
    /\ refreshes[2].cacheDone = "installed"
    /\ backend.codeModel = ReplyTo(refreshes[1].codemodel)
    /\ backend.cacheEntries =
           reduceCache(cacheOf(ReplyTo(refreshes[2].cache)), NewMap)

\* The backend promise restart i of wrapper w is chained on.
Previous(w, i) == w.promises[w.tasks[i].prev]

\* C37: restartBackend chains on the backend promise that is current when
\* it is called and makes its own promise the current one, and a restart
\* whose previous promise resolved with a backend calls startBackend only
\* once the dispose() of that backend has completed.
C37_DisposeBeforeStart ==
    [][/\ Len(wrapper'.tasks) > Len(wrapper.tasks) =>
             LET t == wrapper'.tasks[Len(wrapper'.tasks)]
             IN  /\ t.prev = wrapper.backend
                 /\ t.result = wrapper'.backend
                 /\ t.starts = 0
       /\ \A i \in 1..Len(wrapper.tasks) :
             (/\ wrapper'.tasks[i].starts > wrapper.tasks[i].starts
              /\ Previous(wrapper, i).state = "resolved")
             => wrapper'.backends[Previous(wrapper, i).backend].state = "disposed"]_vars

\* A restart has disposed the backend of the previous promise and then
\* started a new server.
C37_Witness ==
    \E i \in 1..Len(wrapper.tasks) :
        /\ Previous(wrapper, i).state = "resolved"
        /\ wrapper.backends[Previous(wrapper, i).backend].state = "disposed"
        /\ wrapper.tasks[i].created # 0
        /\ wrapper.backends[wrapper.tasks[i].created].state = "ready"

\* C38: a restart calls startBackend at most twice, and twice exactly when
\* the previous promise resolved with a backend, which was disposed, and
\* the startBackend called after the dispose rejected, so that the catch
\* callback has called it again.
C38_StartsTwice ==
    \A i \in 1..Len(wrapper.tasks) :
        LET t == wrapper.tasks[i]
        IN  /\ t.starts <= 2
            /\ t.starts = 2 <=> (Previous(wrapper, i).state = "resolved"
                                   /\ t.via = "catch")
            /\ (/\ t.pc = "done"
                /\ Previous(wrapper, i).state = "resolved"
                /\ wrapper.promises[t.result].state = "rejected")
               => t.starts = 2

\* The startBackend after the dispose of the previous backend rejected and
\* the catch callback has called startBackend a second time.
C38_Witness ==
    \E i \in 1..Len(wrapper.tasks) :
        /\ wrapper.tasks[i].starts = 2
        /\ wrapper.backends[Previous(wrapper, i).backend].state = "disposed"

\* No restart and no configure call of the wrapper is under way.
Idle ==
    /\ \A i \in 1..Len(wrapper.tasks) : wrapper.tasks[i].pc = "done"
    /\ \A c \in 1..Len(wrapper.configs) : wrapper.configs[c].pc = "done"

\* C39 (as claimed): when no operation of the wrapper is under way, every
\* backend that was started and not disposed is the backend the current
\* backend promise is resolved with.
C39_NoOrphanBackend ==
    Idle =>
        \A b \in 1..Len(wrapper.backends) :
            wrapper.backends[b].state = "ready" =>
                /\ wrapper.promises[wrapper.backend].state = "resolved"
                /\ wrapper.promises[wrapper.backend].backend = b

\* Call c of configure() has created and configured a backend for a new
\* project, the promise of that backend is the current one, and every
\* restartBackend has ended without starting a server (the project was
\* unconfigured throughout).
ConfiguredNew(w, c) ==
    /\ w.configs[c].pc = "done"
    /\ w.configs[c].via = "new"
    /\ w.configs[c].result = "0"
    /\ w.backend = w.configs[c].promise
    /\ \A i \in 1..Len(w.tasks) :
          w.tasks[i].pc = "done" /\ w.tasks[i].created = 0

\* C40: model.state changes only in a step of startBackend; after a
\* configure() that created and configured a backend for a new project the
\* state is still "Unconfigured", while the current backend promise is
\* resolved with that backend, which is live.
C40_StateOnlyByStartBackend ==
    [][/\ wrapper'.state # wrapper.state =>
             \E i \in 1..Len(wrapper.tasks) :
                 /\ wrapper.tasks[i].pc \in {"validate", "initialize"}
                 /\ wrapper'.tasks[i] # wrapper.tasks[i]
       /\ \A c \in 1..Len(wrapper'.configs) :
             ConfiguredNew(wrapper', c) =>
                 /\ wrapper'.state = "Unconfigured"
                 /\ wrapper'.promises[wrapper'.backend].state = "resolved"
                 /\ wrapper'.promises[wrapper'.backend].backend =
                        wrapper'.configs[c].created
                 /\ wrapper'.backends[wrapper'.configs[c].created].state = "ready"]_vars

\* configure() has returned 0 for a new project: the current backend is
\* live and the state of the model is "Unconfigured".
C40_Witness ==
    \E c \in 1..Len(wrapper.configs) :
        /\ ConfiguredNew(wrapper, c)
        /\ wrapper.state = "Unconfigured"
        /\ wrapper.promises[wrapper.backend].state = "resolved"
        /\ wrapper.backends[wrapper.promises[wrapper.backend].backend].state = "ready"
        /\ wrapper.backends[wrapper.promises[wrapper.backend].backend].dir
               \in wrapper.caches

====
